---- MODULE Spec2Model ----
(***************************************************************************)
(* Retrieval engine of the SOP assistant.                                  *)
(*                                                                         *)
(*   js/advancedVectorDB.js  AdvancedVectorDatabase  (weighted-sum search) *)
(*   js/vectorDatabase.js    AdvancedVectorDatabase  (reciprocal-rank      *)
(*                           fusion search), ImprovedQueryIntelligence     *)
(*                                                                         *)
(* JavaScript strings are sequences of one-character strings, so that      *)
(* lower-casing, punctuation stripping, splitting and substring tests are  *)
(* computed as the code computes them.  JavaScript numbers are fixed-point *)
(* integers with SCALE units per 1.0 (floor division, integer square       *)
(* root, tabulated natural logarithm).                                     *)
(***************************************************************************)
EXTENDS Integers, Sequences, FiniteSets, TLC

\* ------------------------------------------------------------------------
\* Bounds of the model
\* ------------------------------------------------------------------------

\* number of initialize / buildFromChunks calls in one behaviour
MaxBuilds == 2

\* largest options.maxResults / limit argument passed to search
MaxResultsArg == 2

\* ------------------------------------------------------------------------
\* Strings
\* ------------------------------------------------------------------------

UpperChars == <<"A","B","C","D","E","F","G","H","I","J","K","L","M","N","O","P","Q","R","S","T","U","V","W","X","Y","Z">>

LowerChars == <<"a","b","c","d","e","f","g","h","i","j","k","l","m","n","o","p","q","r","s","t","u","v","w","x","y","z">>

DigitChars == <<"0","1","2","3","4","5","6","7","8","9">>

Range(s) == {s[i] : i \in DOMAIN s}

\* String.prototype.toLowerCase, one character
\* the lower-case letter of each upper-case letter
LowerCaseOf ==
    [c \in Range(UpperChars) |->
        LowerChars[CHOOSE i \in DOMAIN UpperChars : UpperChars[i] = c]]

toLowerCaseChar(c) == IF c \in DOMAIN LowerCaseOf THEN LowerCaseOf[c] ELSE c

\* String.prototype.toLowerCase
toLowerCase(s) == [i \in 1..Len(s) |-> toLowerCaseChar(s[i])]

\* the regular expression class \w
WordChars ==
    Range(UpperChars) \cup Range(LowerChars) \cup Range(DigitChars) \cup {"_"}

IsWordChar(c) == c \in WordChars

\* the regular expression class \s
IsSpaceChar(c) == c \in {" ", "\t", "\n", "\r"}

\* .replace(/[^\w\s]/g, ' ')
ReplaceNonWord(s) ==
    [i \in 1..Len(s) |-> IF IsWordChar(s[i]) \/ IsSpaceChar(s[i]) THEN s[i] ELSE " "]

\* .split(/\s+/): the pieces between maximal runs of white space; a string
\* that starts (ends) with white space yields a leading (trailing) "".
SplitWhitespace(s) ==
    LET positions == [i \in 1..Len(s) |-> i]
        starts == SelectSeq(positions, LAMBDA i :
                      ~IsSpaceChar(s[i]) /\ (i = 1 \/ IsSpaceChar(s[i - 1])))
        ends   == SelectSeq(positions, LAMBDA j :
                      ~IsSpaceChar(s[j]) /\ (j = Len(s) \/ IsSpaceChar(s[j + 1])))
        \* the k-th piece runs from the k-th start to the k-th end
        pieces == [k \in DOMAIN starts |-> SubSeq(s, starts[k], ends[k])]
        lead   == IF s = <<>> \/ IsSpaceChar(s[1]) THEN <<<<>>>> ELSE <<>>
        trail  == IF s # <<>> /\ IsSpaceChar(s[Len(s)]) THEN <<<<>>>> ELSE <<>>
    IN  lead \o pieces \o trail

\* String.prototype.includes
Includes(s, k) ==
    \E i \in 0..(Len(s) - Len(k)) : SubSeq(s, i + 1, i + Len(k)) = k

\* the stop word list of extractTerms
stopWords ==
    { <<"t","h","e">>, <<"a">>, <<"a","n">>,
      <<"a","n","d">>, <<"o","r">>, <<"b","u","t">>,
      <<"i","n">>, <<"o","n">>, <<"a","t">>,
      <<"t","o">>, <<"f","o","r">>, <<"o","f">>,
      <<"w","i","t","h">>, <<"b","y">>, <<"i","s">>,
      <<"a","r","e">>, <<"w","a","s">>, <<"w","e","r","e">>,
      <<"b","e">>, <<"b","e","e","n">>, <<"h","a","v","e">>,
      <<"h","a","s">>, <<"h","a","d">>, <<"d","o">>,
      <<"d","o","e","s">>, <<"d","i","d">>, <<"w","i","l","l">>,
      <<"w","o","u","l","d">>, <<"c","o","u","l","d">>, <<"s","h","o","u","l","d">> }

KeepTerm(word) == Len(word) > 2 /\ word \notin stopWords

\* AdvancedVectorDatabase.extractTerms (advancedVectorDB.js)
extractTerms(text) ==
    SelectSeq(SplitWhitespace(ReplaceNonWord(toLowerCase(text))), KeepTerm)

\* ------------------------------------------------------------------------
\* Numbers
\* ------------------------------------------------------------------------

\* fixed-point units per 1.0
SCALE == 10 * 10 * 10

RECURSIVE SqrtSearch(_, _, _)
SqrtSearch(x, lo, hi) ==
    IF lo >= hi THEN lo
    ELSE LET mid == (lo + hi + 1) \div 2
         IN  IF mid * mid <= x THEN SqrtSearch(x, mid, hi)
                               ELSE SqrtSearch(x, lo, mid - 1)

\* Math.sqrt on an integer: the largest r with r * r <= x (x < 2^31)
ISqrt(x) == SqrtSearch(x, 0, IF x < 46340 THEN x ELSE 46340)

\* Math.log(n) in SCALE units, for the document counts the model reaches
LnTable == <<0, 693, 1099, 1386, 1609, 1792, 1946, 2079>>

\* Math.log(1 + n / d): a smoothed inverse document frequency
LnSmoothed(n, d) == LnTable[n + d] - LnTable[d]

\* Math.log(d / n): the ratio taken the wrong way round
LnOfInverse(n, d) == LnTable[d] - LnTable[n]

\* Math.log(n / d) for integers 1 <= d, n
Ln(n, d) == LnTable[n] - LnTable[d]

RECURSIVE SumSeq(_)
SumSeq(s) == IF s = <<>> THEN 0 ELSE Head(s) + SumSeq(Tail(s))

RECURSIVE SumOver(_, _)
SumOver(f, S) ==
    IF S = {} THEN 0
    ELSE LET k == CHOOSE k \in S : TRUE IN f[k] + SumOver(f, S \ {k})

Put(m, k, v) == [y \in (DOMAIN m) \cup {k} |-> IF y = k THEN v ELSE m[y]]

Min(a, b) == IF a <= b THEN a ELSE b

\* ------------------------------------------------------------------------
\* Inputs: chunk records, chunk collections, queries, filters
\* ------------------------------------------------------------------------

\* tag values (strings)
OH == <<"O","H">>

MD == <<"M","D">>

ZZ == <<"Z","Z">>

RISE == <<"R","I","S","E">>

REGULAR == <<"R","E","G","U","L","A","R">>

ORDER_LIMITS == <<"O","R","D","E","R","_","L","I","M","I","T","S">>

BATTERIES == <<"B","A","T","T","E","R","I","E","S">>

NJ == <<"N","J">>

PRICING == <<"P","R","I","C","I","N","G">>

ORDER_LIMIT == <<"O","R","D","E","R","_","L","I","M","I","T">>

DELIVERY_DATE == <<"D","E","L","I","V","E","R","Y","_","D","A","T","E">>

BATCH_SUB == <<"B","A","T","C","H","_","S","U","B">>

\* A chunk record.  "missing" names the properties that are undefined in
\* the JavaScript object; the value the record holds for such a property
\* is never read.
MakeChunk(id, text, states, sections, topics, images, hasImages, missing) ==
    [ chunk_id |-> id,
      text     |-> text,
      images   |-> images,
      metadata |-> [ states     |-> states,
                     sections   |-> sections,
                     topics     |-> topics,
                     has_images |-> hasImages ],
      missing  |-> missing ]

imgBattery ==
    [ filename |-> <<"b","a","t","t","e","r","y",".","p","n","g">>,
      label    |-> <<"B","a","t","t","e","r","y"," ","f","o","r","m">> ]

chunkOH1 ==
    MakeChunk(1, <<"O","h","i","o"," ","l","i","m","i","t">>,
              <<OH>>, <<RISE>>, <<ORDER_LIMITS>>, <<>>, FALSE, {})

\* same terms and tags as chunkOH1 under another id
chunkOH2 ==
    MakeChunk(2, <<"T","h","e"," ","O","h","i","o"," ","l","i","m","i","t",".">>,
              <<OH>>, <<RISE>>, <<ORDER_LIMITS>>, <<>>, FALSE, {})

chunkMD ==
    MakeChunk(3, <<"M","D"," ","b","a","t","t","e","r","y">>,
              <<MD>>, <<REGULAR>>, <<BATTERIES>>, <<imgBattery>>, TRUE, {})

\* a later version of chunk 3 without images
chunkMDplain ==
    MakeChunk(3, <<"M","D"," ","o","r","d","e","r">>,
              <<MD>>, <<REGULAR>>, <<>>, <<>>, FALSE, {})

chunkNoMeta ==
    MakeChunk(4, <<"O","h","i","o">>, <<>>, <<>>, <<>>, <<>>, FALSE,
              {"metadata"})

chunkNoText ==
    MakeChunk(5, <<>>, <<OH>>, <<>>, <<>>, <<>>, FALSE, {"text"})

chunkNoTags ==
    MakeChunk(6, <<"l","i","m","i","t">>, <<>>, <<>>, <<>>, <<>>, FALSE,
              {"states", "sections", "topics", "images", "has_images"})

\* an image whose label and file name hold no term
imgBlank ==
    [ filename |-> <<"x",".","p","n","g">>, label |-> <<"a">> ]

\* a chunk whose text holds no term, with such an image
chunkBlank ==
    MakeChunk(7, <<"I","t"," ","i","s">>,
              <<OH>>, <<>>, <<>>, <<imgBlank>>, TRUE, {})

\* a chunk record with metadata.image_count and metadata.word_count
WithCounts(chunk, imageCount, wordCount) ==
    [chunk EXCEPT !.metadata =
        [ states      |-> @.states,
          sections    |-> @.sections,
          topics      |-> @.topics,
          has_images  |-> @.has_images,
          image_count |-> imageCount,
          word_count  |-> wordCount ]]

\* the chunks of createSampleDataFallback (app.js)
sampleChunk0 ==
    WithCounts(
        MakeChunk(0, <<"O","h","i","o"," ","(","O","H",")"," ","R","I","S","E"," ","O","r","d","e","r","s",":"," ","F","o","r"," ","R","I","S","E"," ","o","r","d","e","r","s"," ","i","n"," ","O","h","i","o",","," ","f","o","l","l","o","w"," ","s","t","a","n","d","a","r","d"," ","m","e","n","u"," ","p","r","i","c","i","n","g"," ","w","i","t","h","o","u","t"," ","a","n","y"," ","d","i","s","c","o","u","n","t","s","."," ","T","h","e"," ","u","n","i","t"," ","l","i","m","i","t"," ","i","s"," ","1","0"," ","u","n","i","t","s"," ","p","e","r"," ","o","r","d","e","r","."," ","N","o"," ","s","p","e","c","i","a","l"," ","n","o","t","e","s"," ","a","r","e"," ","r","e","q","u","i","r","e","d"," ","f","o","r"," ","b","a","t","c","h"," ","s","u","b","s","t","i","t","u","t","i","o","n","s"," ","i","n"," ","O","h","i","o"," ","R","I","S","E"," ","o","r","d","e","r","s",".">>,
                  <<OH>>, <<RISE>>, <<PRICING, ORDER_LIMIT>>, <<>>, FALSE, {}),
        0, 40)

sampleChunk1 ==
    WithCounts(
        MakeChunk(1, <<"M","a","r","y","l","a","n","d"," ","(","M","D",")"," ","R","e","g","u","l","a","r"," ","O","r","d","e","r","s",":"," ","R","e","g","u","l","a","r"," ","w","h","o","l","e","s","a","l","e"," ","o","r","d","e","r","s"," ","i","n"," ","M","a","r","y","l","a","n","d"," ","r","e","q","u","i","r","e"," ","s","e","p","a","r","a","t","e"," ","i","n","v","o","i","c","i","n","g"," ","f","o","r"," ","b","a","t","t","e","r","i","e","s","."," ","T","h","e"," ","d","e","l","i","v","e","r","y"," ","d","a","t","e"," ","s","h","o","u","l","d"," ","b","e"," ","s","e","t"," ","a","c","c","o","r","d","i","n","g"," ","t","o"," ","t","h","e"," ","s","t","a","n","d","a","r","d"," ","s","c","h","e","d","u","l","e","."," ","M","e","n","u"," ","p","r","i","c","i","n","g"," ","a","p","p","l","i","e","s"," ","f","o","r"," ","a","l","l"," ","r","e","g","u","l","a","r"," ","o","r","d","e","r","s",".">>,
                  <<MD>>, <<REGULAR>>, <<BATTERIES, DELIVERY_DATE, PRICING>>, <<>>, FALSE, {}),
        0, 37)

sampleChunk2 ==
    WithCounts(
        MakeChunk(2, <<"N","e","w"," ","J","e","r","s","e","y"," ","(","N","J",")"," ","B","a","t","c","h"," ","S","u","b","s","t","i","t","u","t","i","o","n"," ","R","u","l","e","s",":"," ","F","o","r"," ","N","J"," ","o","r","d","e","r","s",","," ","F","I","F","O"," ","(","F","i","r","s","t"," ","I","n",","," ","F","i","r","s","t"," ","O","u","t",")"," ","p","r","i","n","c","i","p","l","e"," ","a","p","p","l","i","e","s"," ","f","o","r"," ","b","a","t","c","h"," ","s","u","b","s","t","i","t","u","t","i","o","n","s","."," ","W","h","e","n"," ","a"," ","r","e","q","u","e","s","t","e","d"," ","b","a","t","c","h"," ","i","s"," ","n","o","t"," ","a","v","a","i","l","a","b","l","e",","," ","s","u","b","s","t","i","t","u","t","e"," ","w","i","t","h"," ","t","h","e"," ","e","a","r","l","i","e","s","t"," ","a","v","a","i","l","a","b","l","e"," ","b","a","t","c","h","."," ","D","o","c","u","m","e","n","t"," ","a","l","l"," ","s","u","b","s","t","i","t","u","t","i","o","n","s"," ","i","n"," ","t","h","e"," ","o","r","d","e","r"," ","n","o","t","e","s",".">>,
                  <<NJ>>, <<REGULAR, RISE>>, <<BATCH_SUB>>, <<>>, FALSE, {}),
        0, 43)

SampleChunks == <<sampleChunk0, sampleChunk1, sampleChunk2>>

\* the chunk collections passed to a build
Collections ==
    { <<>>,
      <<chunkOH1, chunkOH2>>,
      <<chunkOH2, chunkOH1>>,
      <<chunkOH1, chunkMD>>,
      <<chunkMDplain>>,
      <<chunkOH1, chunkNoMeta>>,
      <<chunkOH1, chunkNoText>>,
      <<chunkNoTags, chunkOH2>>,
      <<chunkBlank>> }

\* the chunk collections the application builds its database from
AppCollections == { <<>>, <<chunkOH1, chunkMD>>, SampleChunks }

RequiredFields ==
    {"chunk_id", "text", "images", "metadata", "states", "sections", "topics"}

WellFormed(chunk) == chunk.missing \cap RequiredFields = {}

Queries ==
    { <<"O","h","i","o"," ","l","i","m","i","t","?">>,
      <<"M","D"," ","b","a","t","t","e","r","y">>,
      <<"t","o"," ","b","e">> }

\* the questions put to searchAndAnswer (app.js)
OhioQuestion == <<"W","h","a","t"," ","a","r","e"," ","t","h","e"," ","o","r","d","e","r"," ","l","i","m","i","t","s"," ","f","o","r"," ","O","h","i","o","?">>

AppQueries ==
    { OhioQuestion,
      <<"m","a","x","i","m","u","m"," ","u","n","i","t","s">>,
      <<"h","e","l","l","o"," ","t","h","e","r","e">>,
      <<"O","h","i","o"," ","r","i","s","e"," ","p","r","i","c","e"," ","l","i","m","i","t">>,
      <<"r","i","s","e"," ","p","r","i","c","e"," ","b","a","t","c","h"," ","d","a","t","e">>,
      <<"N","J"," ","r","e","g","u","l","a","r"," ","p","r","i","c","e"," ","b","a","t","c","h"," ","d","a","t","e">> }

\* A filter object; an absent dimension is the empty list / FALSE.
MakeFilters(states, sections, topics, hasImages) ==
    [ states |-> states, sections |-> sections, topics |-> topics,
      hasImages |-> hasImages ]

NoFilters == MakeFilters(<<>>, <<>>, <<>>, FALSE)

FilterSet ==
    { NoFilters,
      MakeFilters(<<OH>>, <<>>, <<>>, FALSE),
      MakeFilters(<<ZZ>>, <<>>, <<>>, FALSE),
      MakeFilters(<<MD, OH>>, <<>>, <<>>, FALSE),
      MakeFilters(<<OH>>, <<REGULAR>>, <<>>, FALSE),
      MakeFilters(<<>>, <<>>, <<>>, TRUE) }

ChunkIds(cs) == {cs[i].chunk_id : i \in DOMAIN cs}

\* ------------------------------------------------------------------------
\* advancedVectorDB.js: pure helpers
\* ------------------------------------------------------------------------

\* a configuration with the semantic and the keyword weight exchanged
searchConfigKeywordFirst ==
    [ maxResults     |-> 10,
      semanticWeight |-> 300,
      keywordWeight  |-> 400,
      metadataWeight |-> 300,
      imageBoost     |-> 100 ]

\* searchConfig, weights in SCALE units
searchConfig ==
    [ maxResults     |-> 10,
      semanticWeight |-> 400,
      keywordWeight  |-> 300,
      metadataWeight |-> 300,
      imageBoost     |-> 100 ]

CountOf(terms, t) == Cardinality({i \in DOMAIN terms : terms[i] = t})

\* createTextEmbedding: term counts divided by their L2 norm
createTextEmbedding(text) ==
    LET terms == extractTerms(text)
        keys  == Range(terms)
        cnt   == [t \in keys |-> CountOf(terms, t)]
        sq    == [t \in keys |-> cnt[t] * cnt[t]]
        norm  == ISqrt(SumOver(sq, keys) * SCALE * SCALE)
    IN  [t \in keys |-> IF norm > 0 THEN (cnt[t] * SCALE * SCALE) \div norm
                                    ELSE cnt[t]]

\* cosineSimilarity of two sparse vectors
cosineSimilarity(vec1, vec2) ==
    LET commonTerms == (DOMAIN vec1) \cap (DOMAIN vec2)
        prod  == [t \in commonTerms |-> vec1[t] * vec2[t]]
        sq1   == [t \in DOMAIN vec1 |-> vec1[t] * vec1[t]]
        sq2   == [t \in DOMAIN vec2 |-> vec2[t] * vec2[t]]
        dotProduct == SumOver(prod, commonTerms)
        norm1 == ISqrt(SumOver(sq1, DOMAIN vec1))
        norm2 == ISqrt(SumOver(sq2, DOMAIN vec2))
    IN  IF commonTerms = {} THEN 0
        ELSE IF norm1 > 0 /\ norm2 > 0
             THEN (dotProduct * SCALE) \div (norm1 * norm2)
             ELSE 0

\* filename.replace(/\.[^/.]+$/, ""): drop the extension
StripExtension(name) ==
    LET dots == {i \in DOMAIN name :
                    /\ name[i] = "."
                    /\ i < Len(name)
                    /\ \A j \in (i + 1)..Len(name) : name[j] \notin {"/", "."}}
    IN  IF dots = {} THEN name
        ELSE SubSeq(name, 1, (CHOOSE i \in dots : TRUE) - 1)

\* [...new Set(keywords)]: first occurrences, in order
Dedupe(s) ==
    LET firsts == SelectSeq([i \in 1..Len(s) |-> i],
                            LAMBDA i : \A j \in 1..(i - 1) : s[j] # s[i])
    IN  [k \in DOMAIN firsts |-> s[firsts[k]]]

RECURSIVE ImageTerms(_)
ImageTerms(images) ==
    IF images = <<>> THEN <<>>
    ELSE LET image == Head(images)
             fromLabel == IF image.label # <<>>
                          THEN extractTerms(image.label) ELSE <<>>
             fromName  == IF image.filename # <<>>
                          THEN extractTerms(StripExtension(image.filename))
                          ELSE <<>>
         IN  fromLabel \o fromName \o ImageTerms(Tail(images))

\* extractImageKeywords
extractImageKeywords(images) == Dedupe(ImageTerms(images))

\* chunk.images && chunk.images.length > 0
HasImageList(chunk) == "images" \notin chunk.missing /\ Len(chunk.images) > 0

\* the chunk records of the collections
AllChunks == UNION {Range(cs) : cs \in Collections \cup AppCollections}

\* the texts of the chunk records and of the queries
Texts == Queries \cup AppQueries \cup {chunk.text : chunk \in AllChunks}

\* extractTerms and createTextEmbedding of each of these texts, computed
\* once
extractTermsOf == [text \in Texts |-> extractTerms(text)]

createTextEmbeddingOf == [text \in Texts |-> createTextEmbedding(text)]

\* ------------------------------------------------------------------------
\* advancedVectorDB.js: state of one AdvancedVectorDatabase instance
\* ------------------------------------------------------------------------

VARIABLES
    chunks,         \* this.chunks
    semanticIndex,  \* this.semanticIndex: chunk id -> entry
    keywordIndex,   \* this.keywordIndex:  chunk id -> entry
    metadataIndex,  \* this.metadataIndex
    imageIndex,     \* this.imageIndex:    chunk id -> entry
    initialized,    \* this.initialized
    pc,             \* where the pending initialize call is suspended
    outcome,        \* how the latest initialize call has ended, or "running"
    builds,         \* number of initialize calls made
    before,         \* history: the instance's fields when the latest
                    \* initialize call was made
    ret             \* what the latest search call returned or threw

advVars == <<chunks, semanticIndex, keywordIndex, metadataIndex, imageIndex,
             initialized, pc, outcome, builds, before, ret>>

\* the fields of the instance that a build writes and a search reads
Fields ==
    [ chunks        |-> chunks,
      semanticIndex |-> semanticIndex,
      keywordIndex  |-> keywordIndex,
      metadataIndex |-> metadataIndex,
      imageIndex    |-> imageIndex,
      initialized   |-> initialized ]

EmptyMap == <<>>

\* new Map(): a metadata index without states/sections/topics/hasImages
UnbuiltMetadataIndex ==
    [ built |-> FALSE, states |-> EmptyMap, sections |-> EmptyMap,
      topics |-> EmptyMap, hasImages |-> EmptyMap ]

NoReturn ==
    [ op |-> "none", query |-> <<>>, filters |-> NoFilters, maxResults |-> 0,
      threw |-> FALSE, error |-> "", results |-> <<>>, totalCandidates |-> 0 ]

\* ------------------------------------------------------------------------
\* vectorDatabase.js: state of one AdvancedVectorDatabase instance
\* ------------------------------------------------------------------------

VARIABLES
    instanceOf,        \* the file whose class AdvancedVectorDatabase the
                       \* instance is of
    vdbChunks,         \* this.chunks
    vdbSemanticIndex,  \* this.semanticIndex: one embedding per chunk position
    vdbMetadataIndex,  \* this.metadataIndex: one embedding per chunk position
    vdbKeywordIndex,   \* this.keywordIndex: {vectors, vocabulary}
    vdbImageIndex,     \* this.imageIndex
    metadataStore,     \* this.metadataStore: chunk position -> entry
    isReady,           \* this.isReady
    vdbPc,             \* where the pending buildFromChunks call is suspended
    vdbLocal,          \* the local variables of the pending buildFromChunks call
    vdbOutcome,        \* how the latest buildFromChunks call has ended, or "running"
    vdbBuilds,         \* number of buildFromChunks calls made
    vdbCall,           \* the local variables of the pending search call
    vdbRet             \* what the latest search call returned or threw

vdbVars == <<vdbChunks, vdbSemanticIndex, vdbMetadataIndex, vdbKeywordIndex,
             vdbImageIndex, metadataStore, isReady, vdbPc, vdbLocal,
             vdbOutcome, vdbBuilds, vdbCall, vdbRet>>

\* The page: the application object (app.js), its chat interface
\* (chatInterface.js), its GlobalConfig (githubIntegration.js) and the
\* items of localStorage they keep.
VARIABLES
    vectorDbReady,  \* this.state.vectorDbReady
    gti_app_state,  \* the item of localStorage saveState writes
    appPc,          \* "loading" until init has called loadSavedState
    synced,         \* number of initialize calls syncFromGoogleDocs has
                    \* seen settle
    isProcessing,   \* ChatInterface: this.isProcessing
    requests,       \* number of searchAndAnswer calls sendMessage awaits
    result,         \* what the awaited searchAndAnswer call has settled
                    \* with, until sendMessage is resumed
    messages,       \* ChatInterface: this.messages.length
    gti_chat_history, \* the item of localStorage saveToHistory writes
    exchanges,      \* history: sendMessage calls accepted and ignored, those
                    \* answered with success, and saveToHistory calls made
    calls           \* GlobalConfig: the fetchWithRetry calls

pageVars == <<vectorDbReady, gti_app_state, appPc, synced>>

chatVars == <<isProcessing, requests, result, messages, gti_chat_history,
              exchanges>>

appVars == <<pageVars, chatVars, calls>>

\* the fields of the instance that a build writes and a search reads
VdbFields ==
    [ chunks        |-> vdbChunks,
      semanticIndex |-> vdbSemanticIndex,
      metadataIndex |-> vdbMetadataIndex,
      keywordIndex  |-> vdbKeywordIndex,
      imageIndex    |-> vdbImageIndex,
      metadataStore |-> metadataStore,
      isReady       |-> isReady ]

\* null, for an index that has not been assigned
Null == [null |-> TRUE]

\* no buildFromChunks call is pending
NoLocal == [chunks |-> <<>>, semanticEmbeddings |-> <<>>]

\* no search call is pending
NoCall ==
    [ pending |-> FALSE, query |-> <<>>, filters |-> Null, limit |-> 0,
      calledAt |-> [builds |-> 0, pc |-> "idle"],
      enhancedQuery   |-> [state |-> <<>>, orderType |-> <<>>, topics |-> <<>>],
      semanticResults |-> <<>> ]

NoResult ==
    [ op |-> "none", query |-> <<>>, filters |-> Null, limit |-> 0,
      calledAt |-> [builds |-> 0, pc |-> "idle"],
      threw |-> FALSE, error |-> "", results |-> <<>> ]

\* ------------------------------------------------------------------------
\* advancedVectorDB.js: index builders.  Each returns the index it leaves
\* behind and whether it threw.
\* ------------------------------------------------------------------------

RECURSIVE buildSemanticIndex(_, _)
buildSemanticIndex(index, cs) ==
    IF cs = <<>> THEN [index |-> index, threw |-> FALSE]
    ELSE LET chunk == Head(cs)
         IN  IF "text" \in chunk.missing
             THEN [index |-> index, threw |-> TRUE]
             ELSE buildSemanticIndex(
                      Put(index, chunk.chunk_id,
                          [ id         |-> chunk.chunk_id,
                            vector     |-> createTextEmbeddingOf[chunk.text],
                            text       |-> chunk.text,
                            textLength |-> Len(chunk.text) ]),
                      Tail(cs))

buildKeywordIndex(index, cs) ==
    IF \E i \in DOMAIN cs : "text" \in cs[i].missing
    THEN [index |-> index, threw |-> TRUE]
    ELSE LET totalDocs == Len(cs)
             ids == ChunkIds(cs)
             \* termFreq.get(id): the entry of the last chunk with that id
             lastOf(id) ==
                 cs[CHOOSE i \in DOMAIN cs :
                        /\ cs[i].chunk_id = id
                        /\ \A j \in DOMAIN cs : cs[j].chunk_id = id => j <= i]
             termsOf(id) == extractTermsOf[lastOf(id).text]
             documentFreq(term) ==
                 {cs[i].chunk_id : i \in {j \in DOMAIN cs :
                                            term \in Range(extractTermsOf[cs[j].text])}}
             tfidfVector(id) ==
                 [term \in Range(termsOf(id)) |->
                     CountOf(termsOf(id), term)
                       * Ln(totalDocs, Cardinality(documentFreq(term)))]
         IN  [ index |-> [id \in (DOMAIN index) \cup ids |->
                             IF id \in ids
                             THEN [id |-> id, vector |-> tfidfVector(id)]
                             ELSE index[id]],
               threw |-> FALSE ]

\* if (meta.<field>) for (const v of meta.<field>)
Tags(chunk, field) ==
    IF field \in chunk.missing THEN <<>> ELSE chunk.metadata[field]

RECURSIVE Postings(_, _, _)
Postings(cs, field, v) ==
    IF cs = <<>> THEN <<>>
    ELSE LET chunk == Head(cs)
             tags  == Tags(chunk, field)
             hits  == SelectSeq(tags, LAMBDA t : t = v)
         IN  [i \in 1..Len(hits) |-> chunk.chunk_id] \o Postings(Tail(cs), field, v)

InvertedIndex(cs, field) ==
    LET values == UNION {Range(Tags(cs[i], field)) : i \in DOMAIN cs}
    IN  [v \in values |-> Postings(cs, field, v)]

\* meta.has_images || (chunk.images && chunk.images.length > 0)
HasImagesKey(chunk) ==
    IF "has_images" \notin chunk.missing /\ chunk.metadata.has_images
    THEN "true"
    ELSE IF "images" \in chunk.missing THEN "undefined"
         ELSE IF Len(chunk.images) > 0 THEN "true" ELSE "false"

HasImagesIndex(cs) ==
    LET keys == {HasImagesKey(cs[i]) : i \in DOMAIN cs}
    IN  [k \in keys |->
            LET sel == SelectSeq(cs, LAMBDA c : HasImagesKey(c) = k)
            IN  [i \in 1..Len(sel) |-> sel[i].chunk_id]]

buildMetadataIndex(index, cs) ==
    IF \E i \in DOMAIN cs : "metadata" \in cs[i].missing
    THEN [index |-> index, threw |-> TRUE]
    ELSE [ index |-> [ built     |-> TRUE,
                       states    |-> InvertedIndex(cs, "states"),
                       sections  |-> InvertedIndex(cs, "sections"),
                       topics    |-> InvertedIndex(cs, "topics"),
                       hasImages |-> HasImagesIndex(cs) ],
           threw |-> FALSE ]

RECURSIVE buildImageIndex(_, _)
buildImageIndex(index, cs) ==
    IF cs = <<>> THEN [index |-> index, threw |-> FALSE]
    ELSE LET chunk == Head(cs)
         IN  IF HasImageList(chunk)
             THEN buildImageIndex(
                      Put(index, chunk.chunk_id,
                          [ chunkId       |-> chunk.chunk_id,
                            images        |-> chunk.images,
                            imageCount    |-> Len(chunk.images),
                            imageKeywords |-> extractImageKeywords(chunk.images) ]),
                      Tail(cs))
             ELSE buildImageIndex(index, Tail(cs))

\* ------------------------------------------------------------------------
\* advancedVectorDB.js: search
\* ------------------------------------------------------------------------

Lookup(map, k) == IF k \in DOMAIN map THEN map[k] ELSE <<>>

RECURSIVE Concat(_)
Concat(ss) == IF ss = <<>> THEN <<>> ELSE Head(ss) \o Concat(Tail(ss))

\* the Set filled from the posting lists of the listed values, in
\* insertion order
DimensionCandidates(map, values) ==
    Dedupe(Concat([i \in 1..Len(values) |-> Lookup(map, values[i])]))

\* Narrow taking an empty Set for no Set: "candidates && candidates.size ?"
NarrowEmptyIsNone(cand, dim) ==
    IF cand[1] \/ cand[2] = <<>> THEN <<FALSE, dim>>
    ELSE <<FALSE, SelectSeq(cand[2], LAMBDA id : id \in Range(dim))>>

\* candidates ? new Set([...candidates].filter(id => dim.has(id))) : dim
\* (a narrowing is <<isNull, ids>>; a Set, even an empty one, is truthy)
Narrow(cand, dim) ==
    IF cand[1] THEN <<FALSE, dim>>
    ELSE <<FALSE, SelectSeq(cand[2], LAMBDA id : id \in Range(dim))>>

applyCandidateFilters(filters) ==
    LET c0 == <<TRUE, <<>>>>
        c1 == IF Len(filters.states) > 0
              THEN Narrow(c0, DimensionCandidates(metadataIndex.states, filters.states))
              ELSE c0
        c2 == IF Len(filters.sections) > 0
              THEN Narrow(c1, DimensionCandidates(metadataIndex.sections, filters.sections))
              ELSE c1
        c3 == IF Len(filters.topics) > 0
              THEN Narrow(c2, DimensionCandidates(metadataIndex.topics, filters.topics))
              ELSE c2
        c4 == IF filters.hasImages
              THEN Narrow(c3, Dedupe(Lookup(metadataIndex.hasImages, "true")))
              ELSE c3
    IN  IF c4[1] THEN <<>> ELSE c4[2]

calculateSemanticScore(query, chunkId) ==
    IF chunkId \notin DOMAIN semanticIndex THEN 0
    ELSE cosineSimilarity(createTextEmbeddingOf[query], semanticIndex[chunkId].vector)

calculateKeywordScore(query, chunkId) ==
    LET queryTerms == extractTermsOf[query]
    IN  IF chunkId \notin DOMAIN keywordIndex \/ Len(queryTerms) = 0 THEN 0
        ELSE LET vector == keywordIndex[chunkId].vector
                 tfidf  == [i \in 1..Len(queryTerms) |->
                               IF queryTerms[i] \in DOMAIN vector
                               THEN vector[queryTerms[i]] ELSE 0]
             IN  SumSeq(tfidf) \div Len(queryTerms)

ActiveDimensions(filters) ==
    {d \in {"states", "sections", "topics"} : Len(filters[d]) > 0}

\* meta.<d> && meta.<d>.some(v => filters.<d>.includes(v))
DimensionMatches(filters, chunk, d) ==
    Range(Tags(chunk, d)) \cap Range(filters[d]) # {}

\* reading meta.states of a chunk without metadata is a TypeError
MetadataScoreThrows(filters, chunk) ==
    "metadata" \in chunk.missing /\ ActiveDimensions(filters) # {}

\* a variant that divides by the three dimensions, active or not
calculateMetadataScoreOfThree(filters, chunk) ==
    LET active == ActiveDimensions(filters)
        score  == Cardinality({d \in active : DimensionMatches(filters, chunk, d)})
    IN  IF active # {} THEN (score * SCALE) \div 3 ELSE SCALE \div 2

calculateMetadataScore(filters, chunk) ==
    LET active   == ActiveDimensions(filters)
        maxScore == Cardinality(active)
        score    == Cardinality({d \in active : DimensionMatches(filters, chunk, d)})
    IN  IF maxScore > 0 THEN (score * SCALE) \div maxScore ELSE SCALE \div 2

calculateImageScore(query, chunkId) ==
    IF chunkId \notin DOMAIN imageIndex THEN 0
    ELSE LET queryLower    == toLowerCase(query)
             imageKeywords == imageIndex[chunkId].imageKeywords
             matches == Cardinality({i \in DOMAIN imageKeywords :
                             Includes(queryLower, toLowerCase(imageKeywords[i]))})
         IN  IF matches > 0 THEN (matches * SCALE) \div Len(imageKeywords) ELSE 0

\* this.chunks.find(c => c.chunk_id === chunkId)
FindChunk(chunkId) ==
    chunks[CHOOSE i \in DOMAIN chunks :
              /\ chunks[i].chunk_id = chunkId
              /\ \A j \in DOMAIN chunks : chunks[j].chunk_id = chunkId => i <= j]

ScoreCandidate(query, filters, chunkId) ==
    LET chunk  == FindChunk(chunkId)
        scores == [ semantic |-> calculateSemanticScore(query, chunkId),
                    keyword  |-> calculateKeywordScore(query, chunkId),
                    metadata |-> calculateMetadataScore(filters, chunk),
                    image    |-> calculateImageScore(query, chunkId) ]
    IN  [ chunk  |-> chunk,
          score  |-> ( scores.semantic * searchConfig.semanticWeight
                     + scores.keyword  * searchConfig.keywordWeight
                     + scores.metadata * searchConfig.metadataWeight
                     + scores.image    * searchConfig.imageBoost ) \div SCALE,
          scores |-> scores ]

\* Array.prototype.sort((a, b) => b.score - a.score): stable, descending
RECURSIVE InsertByScore(_, _)
InsertByScore(sorted, r) ==
    IF sorted = <<>> THEN <<r>>
    ELSE IF Head(sorted).score >= r.score
         THEN <<Head(sorted)>> \o InsertByScore(Tail(sorted), r)
         ELSE <<r>> \o sorted

RECURSIVE SortByScore(_)
SortByScore(rs) ==
    IF rs = <<>> THEN <<>>
    ELSE InsertByScore(SortByScore(SubSeq(rs, 1, Len(rs) - 1)), rs[Len(rs)])

\* options.maxResults || this.searchConfig.maxResults
EffectiveMaxResults(maxResults) ==
    IF maxResults # 0 THEN maxResults ELSE searchConfig.maxResults

Thrown(query, filters, maxResults, error) ==
    [ op |-> "search", query |-> query, filters |-> filters,
      maxResults |-> maxResults, threw |-> TRUE, error |-> error,
      results |-> <<>>, totalCandidates |-> 0 ]

search(query, filters, maxResults) ==
    IF ~initialized
    THEN Thrown(query, filters, maxResults, "Vector database not initialized")
    ELSE IF ~metadataIndex.built
              /\ (ActiveDimensions(filters) # {} \/ filters.hasImages)
    THEN Thrown(query, filters, maxResults, "TypeError")
    ELSE
    LET filtered     == applyCandidateFilters(filters)
        candidateIds == IF Len(filtered) = 0
                        THEN [i \in 1..Len(chunks) |-> chunks[i].chunk_id]
                        ELSE filtered
        present      == SelectSeq(candidateIds, LAMBDA id : id \in ChunkIds(chunks))
        scoredResults ==
            [i \in 1..Len(present) |-> ScoreCandidate(query, filters, present[i])]
        sorted       == SortByScore(scoredResults)
    IN  IF \E i \in DOMAIN present :
              MetadataScoreThrows(filters, FindChunk(present[i]))
        THEN Thrown(query, filters, maxResults, "TypeError")
        ELSE [ op |-> "search", query |-> query, filters |-> filters,
               maxResults |-> maxResults, threw |-> FALSE, error |-> "",
               results |-> SubSeq(sorted, 1,
                                  Min(EffectiveMaxResults(maxResults), Len(sorted))),
               totalCandidates |-> Len(candidateIds) ]

\* getTotalKeywordTerms
getTotalKeywordTerms ==
    Cardinality(UNION {DOMAIN keywordIndex[id].vector : id \in DOMAIN keywordIndex})

\* getMetadataStats
getMetadataStats ==
    [ states   |-> Cardinality(DOMAIN metadataIndex.states),
      sections |-> Cardinality(DOMAIN metadataIndex.sections),
      topics   |-> Cardinality(DOMAIN metadataIndex.topics),
      chunksWithImages |-> Len(Lookup(metadataIndex.hasImages, "true")) ]

\* getStats
getStats ==
    [ totalChunks     |-> Len(chunks),
      semanticVectors |-> Cardinality(DOMAIN semanticIndex),
      keywordTerms    |-> getTotalKeywordTerms,
      metadata        |-> getMetadataStats,
      imagesIndexed   |-> Cardinality(DOMAIN imageIndex),
      initialized     |-> initialized ]

\* ------------------------------------------------------------------------
\* vectorDatabase.js: pure helpers
\* ------------------------------------------------------------------------

\* String.prototype.charCodeAt, for the characters of the model's texts
CharCodes ==
    [c \in Range(LowerChars) |-> 96 + CHOOSE i \in DOMAIN LowerChars : LowerChars[i] = c]
    @@ [c \in Range(UpperChars) |-> 64 + CHOOSE i \in DOMAIN UpperChars : UpperChars[i] = c]
    @@ [c \in Range(DigitChars) |-> 47 + CHOOSE i \in DOMAIN DigitChars : DigitChars[i] = c]
    @@ (" " :> 32) @@ ("(" :> 40) @@ (")" :> 41) @@ ("," :> 44) @@ ("-" :> 45) @@ ("." :> 46)
    @@ (":" :> 58) @@ ("?" :> 63) @@ ("_" :> 95)

CharCode(c) == CharCodes[c]

\* hash = ((hash << 5) - hash + code) & 0xffffffff, on the 32-bit value
\* held as <<high 16 bits, low 16 bits>>
HashStep(hash, code) ==
    LET t == 31 * hash[2] + code
    IN  << (31 * hash[1] + t \div 65536) % 65536, t % 65536 >>

\* the loop over the characters at positions from..to, continued from hash
RECURSIVE HashFrom(_, _, _, _)
HashFrom(word, from, to, hash) ==
    IF from > to THEN hash
    ELSE IF from = to THEN HashStep(hash, CharCode(word[from]))
    ELSE LET mid  == (from + to) \div 2
             half == HashFrom(word, from, mid, hash)
         IN  \* the first half of the loop is evaluated before the second
             IF half \in Seq(Nat) THEN HashFrom(word, mid + 1, to, half) ELSE half

\* the hash of a string, starting from 0
HashOf(word) == HashFrom(word, 1, Len(word), <<0, 0>>)

\* Math.abs(hash) % dim, the 32-bit value read as a signed integer
AbsMod(hash, dim) ==
    LET m == IF hash[1] < 32768 THEN hash
             ELSE IF hash[2] = 0 THEN <<65536 - hash[1], 0>>
                  ELSE <<65535 - hash[1], 65536 - hash[2]>>
    IN  ((m[1] % dim) * (65536 % dim) + m[2]) % dim

\* the 32-bit value as a signed integer
ToInt32(hash) ==
    IF hash[1] < 32768 THEN hash[1] * 65536 + hash[2]
    ELSE (hash[1] - 65536) * 65536 + hash[2]

Base36Digits == DigitChars \o LowerChars

RECURSIVE Base36(_)
Base36(n) ==
    IF n < 36 THEN <<Base36Digits[n + 1]>>
    ELSE Append(Base36(n \div 36), Base36Digits[(n % 36) + 1])

\* Number.prototype.toString(36)
ToString36(n) == IF n < 0 THEN <<"-">> \o Base36(0 - n) ELSE Base36(n)

\* Array.prototype.join
RECURSIVE Join(_, _)
Join(ss, sep) ==
    IF ss = <<>> THEN <<>>
    ELSE IF Len(ss) = 1 THEN ss[1]
    ELSE ss[1] \o sep \o Join(Tail(ss), sep)

\* dimensions of the semantic and of the metadata embeddings
SemanticDim == 384

MetadataDim == 128

\* createSimpleEmbedding: the non-zero entries of the embedding, by
\* (0-based) position, in SCALE units
createSimpleEmbedding(text, dim) ==
    LET words   == SplitWhitespace(toLowerCase(text))
        slot    == [i \in DOMAIN words |-> AbsMod(HashOf(words[i]), dim)]
        slots   == Range(slot)
        step    == (SCALE * SCALE) \div ISqrt(Len(words) * SCALE * SCALE)
        raw     == [s \in slots |->
                       step * Cardinality({i \in DOMAIN words : slot[i] = s})]
        sq      == [s \in slots |-> raw[s] * raw[s]]
        norm    == ISqrt(SumOver(sq, slots))
    IN  [s \in slots |-> IF norm > 0 THEN (raw[s] * SCALE) \div norm ELSE raw[s]]

\* `${chunk.text}` of a chunk without text
UndefinedText == <<"u","n","d","e","f","i","n","e","d">>

\* the enhanced text of createEnhancedEmbeddings
EnhancedText(chunk) ==
    LET t0 == IF "text" \in chunk.missing THEN UndefinedText ELSE chunk.text
        t1 == IF Len(Tags(chunk, "states")) > 0
              THEN <<"S","t","a","t","e",":"," ">> \o Join(Tags(chunk, "states"), <<","," ">>)
                     \o <<"."," ">> \o t0
              ELSE t0
        t2 == IF Len(Tags(chunk, "sections")) > 0
              THEN <<"S","e","c","t","i","o","n",":"," ">> \o Join(Tags(chunk, "sections"), <<","," ">>)
                     \o <<"."," ">> \o t1
              ELSE t1
    IN  IF Len(Tags(chunk, "topics")) > 0
        THEN <<"T","o","p","i","c","s",":"," ">> \o Join(Tags(chunk, "topics"), <<","," ">>)
               \o <<"."," ">> \o t2
        ELSE t2

\* whether the enhanced text is still the chunk's own text
Unprefixed(chunk) ==
    /\ Len(Tags(chunk, "states")) = 0
    /\ Len(Tags(chunk, "sections")) = 0
    /\ Len(Tags(chunk, "topics")) = 0

\* createEnhancedEmbeddings: the embeddings, or a TypeError on a chunk
\* without metadata or (no context added) without text
createEnhancedEmbeddings(cs) ==
    IF \E i \in DOMAIN cs :
          \/ "metadata" \in cs[i].missing
          \/ ("text" \in cs[i].missing /\ Unprefixed(cs[i]))
    THEN [value |-> <<>>, threw |-> TRUE]
    ELSE [value |-> [i \in DOMAIN cs |->
                        createSimpleEmbedding(EnhancedText(cs[i]), SemanticDim)],
          threw |-> FALSE]

\* createMetadataEmbeddings
createMetadataEmbeddings(cs) ==
    [i \in DOMAIN cs |->
        LET chunk == cs[i]
            flag  == IF "has_images" \notin chunk.missing
                        /\ chunk.metadata.has_images
                     THEN <<"h","a","s","_","i","m","a","g","e","s">> ELSE <<"n","o","_","i","m","a","g","e","s">>
            metadataText ==
                Join(Tags(chunk, "states") \o Tags(chunk, "sections")
                       \o Tags(chunk, "topics") \o <<flag>>, <<" ">>)
        IN  createSimpleEmbedding(metadataText, MetadataDim)]

\* tokenize (vectorDatabase.js)
tokenize(text) ==
    SelectSeq(SplitWhitespace(ReplaceNonWord(toLowerCase(text))),
              LAMBDA word : Len(word) > 2)

\* documents.filter(doc => this.tokenize(doc).includes(word)).length, given
\* the tokens of each document
DocumentFrequency(tokens, word) ==
    Cardinality({d \in DOMAIN tokens : word \in Range(tokens[d])})

\* Array.prototype.sort by descending document frequency: stable
SortByFrequency(words, tokens) ==
    LET frequency == [i \in DOMAIN words |-> DocumentFrequency(tokens, words[i])]
        \* a word goes after the more frequent words and after the equally
        \* frequent words that precede it
        place == [i \in DOMAIN words |->
                     1 + Cardinality({j \in DOMAIN words :
                            \/ frequency[j] > frequency[i]
                            \/ frequency[j] = frequency[i] /\ j < i})]
    IN  [p \in DOMAIN words |-> words[CHOOSE i \in DOMAIN words : place[i] = p]]

\* max_features
MaxFeatures == 1000

\* createKeywordFeatures: the TF-IDF vectors (by vocabulary position) and
\* the vocabulary (the word at each position), or a TypeError on a chunk
\* without text
createKeywordFeatures(cs) ==
    IF \E i \in DOMAIN cs : "text" \in cs[i].missing
    THEN [value |-> [vectors |-> <<>>, vocabulary |-> <<>>], threw |-> TRUE]
    ELSE
    LET documents  == [i \in DOMAIN cs |-> toLowerCase(cs[i].text)]
        words      == [i \in DOMAIN cs |-> tokenize(documents[i])]
        vocabulary == Dedupe(Concat(words))
        sorted     == SortByFrequency(vocabulary, words)
        finalVocabulary == SubSeq(sorted, 1, Min(MaxFeatures, Len(sorted)))
        tfidf(docIndex, word) ==
            LET tf == CountOf(words[docIndex], word)
            IN  IF tf > 0
                THEN tf * Ln(Len(documents), DocumentFrequency(words, word))
                ELSE 0
    IN  [value |-> [vectors |-> [d \in DOMAIN cs |->
                                    [v \in DOMAIN finalVocabulary |->
                                        tfidf(d, finalVocabulary[v])]],
                    vocabulary |-> finalVocabulary],
         threw |-> FALSE]

\* buildImageIndex (vectorDatabase.js): the chunks flagged has_images, with
\* their (0-based) positions
createImageIndex(cs) ==
    LET flagged == SelectSeq([i \in DOMAIN cs |-> i],
                             LAMBDA i : "has_images" \notin cs[i].missing
                                        /\ cs[i].metadata.has_images)
    IN  [k \in DOMAIN flagged |->
            [chunk |-> cs[flagged[k]], index |-> flagged[k] - 1, hasImages |-> TRUE]]

\* Array.prototype.sort by descending count: stable
RECURSIVE InsertByCount(_, _, _)
InsertByCount(sorted, word, words) ==
    IF sorted = <<>> THEN <<word>>
    ELSE IF CountOf(words, Head(sorted)) >= CountOf(words, word)
         THEN <<Head(sorted)>> \o InsertByCount(Tail(sorted), word, words)
         ELSE <<word>> \o sorted

RECURSIVE SortByCount(_, _)
SortByCount(keys, words) ==
    IF keys = <<>> THEN <<>>
    ELSE InsertByCount(SortByCount(SubSeq(keys, 1, Len(keys) - 1), words),
                       keys[Len(keys)], words)

\* extractKeywords
extractKeywords(text) ==
    LET words  == SelectSeq(tokenize(text), LAMBDA word : Len(word) > 3)
        sorted == SortByCount(Dedupe(words), words)
    IN  SubSeq(sorted, 1, Min(10, Len(sorted)))

\* createSemanticFingerprint
createSemanticFingerprint(text) == ToString36(ToInt32(HashOf(text)))

\* the entry of createMetadataStore for one chunk
MetadataRecord(chunk) ==
    [ chunkId    |-> chunk.chunk_id,
      states     |-> Tags(chunk, "states"),
      sections   |-> Tags(chunk, "sections"),
      topics     |-> Tags(chunk, "topics"),
      hasImages  |-> "has_images" \notin chunk.missing /\ chunk.metadata.has_images,
      imageCount |-> IF "image_count" \in DOMAIN chunk.metadata
                     THEN chunk.metadata.image_count ELSE 0,
      wordCount  |-> IF "word_count" \in DOMAIN chunk.metadata
                     THEN chunk.metadata.word_count ELSE 0,
      keywords   |-> extractKeywords(chunk.text),
      semanticFingerprint |-> createSemanticFingerprint(chunk.text),
      textPreview |-> SubSeq(chunk.text, 1, Min(200, Len(chunk.text))) ]

\* what the steps of buildFromChunks compute from the chunk records alone,
\* for each collection and chunk record, computed once
createEnhancedEmbeddingsOf ==
    [cs \in Collections |-> createEnhancedEmbeddings(cs)]

createMetadataEmbeddingsOf ==
    [cs \in Collections |-> createMetadataEmbeddings(cs)]

createKeywordFeaturesOf ==
    [cs \in Collections |-> createKeywordFeatures(cs)]

MetadataRecordOf == [chunk \in AllChunks |-> MetadataRecord(chunk)]

\* createMetadataStore: entries are written by (0-based) position over the
\* entries the store holds
createMetadataStore(store, cs) ==
    [k \in (DOMAIN store) \cup {i - 1 : i \in DOMAIN cs} |->
        IF k + 1 \in DOMAIN cs THEN MetadataRecordOf[cs[k + 1]] ELSE store[k]]

\* cosineSimilarity (vectorDatabase.js) of two vectors given by their
\* entries, in SCALE units; the factor SCALE is divided between the
\* dividend and the divisor
vdbCosineSimilarity(vecA, vecB) ==
    LET common == (DOMAIN vecA) \cap (DOMAIN vecB)
        dotProduct == SumOver([i \in common |-> vecA[i] * vecB[i]], common)
        normA == SumOver([i \in DOMAIN vecA |-> vecA[i] * vecA[i]], DOMAIN vecA)
        normB == SumOver([i \in DOMAIN vecB |-> vecB[i] * vecB[i]], DOMAIN vecB)
    IN  IF normA = 0 \/ normB = 0 THEN 0
        ELSE (dotProduct * 10) \div ((ISqrt(normA) * ISqrt(normB)) \div 100)

\* ------------------------------------------------------------------------
\* vectorDatabase.js: ImprovedQueryIntelligence
\* ------------------------------------------------------------------------

\* null, for a state or an order type
NullString == <<>>

US_STATE_ABBREVIATIONS ==
    { <<"A","L">>, <<"A","K">>, <<"A","Z">>, <<"A","R">>, <<"C","A">>, <<"C","O">>, <<"C","T">>, <<"D","E">>, <<"F","L">>, <<"G","A">>,
      <<"H","I">>, <<"I","D">>, <<"I","L">>, <<"I","N">>, <<"I","A">>, <<"K","S">>, <<"K","Y">>, <<"L","A">>, <<"M","E">>, <<"M","D">>,
      <<"M","A">>, <<"M","I">>, <<"M","N">>, <<"M","S">>, <<"M","O">>, <<"M","T">>, <<"N","E">>, <<"N","V">>, <<"N","H">>, <<"N","J">>,
      <<"N","M">>, <<"N","Y">>, <<"N","C">>, <<"N","D">>, <<"O","H">>, <<"O","K">>, <<"O","R">>, <<"P","A">>, <<"R","I">>, <<"S","C">>,
      <<"S","D">>, <<"T","N">>, <<"T","X">>, <<"U","T">>, <<"V","T">>, <<"V","A">>, <<"W","A">>, <<"W","V">>, <<"W","I">>, <<"W","Y">> }

\* Object.entries(this.orderTypeKeywords)
orderTypeKeywords ==
    << [key |-> <<"R","I","S","E">>, words |-> <<<<"r","i","s","e">>, <<"i","n","t","e","r","n","a","l">>>>],
       [key |-> <<"R","E","G","U","L","A","R">>, words |-> <<<<"r","e","g","u","l","a","r">>, <<"w","h","o","l","e","s","a","l","e">>>>] >>

\* Object.entries(this.topicKeywords)
topicKeywords ==
    << [key |-> <<"P","R","I","C","I","N","G">>,
        words |-> <<<<"p","r","i","c","e">>, <<"p","r","i","c","i","n","g">>, <<"d","i","s","c","o","u","n","t">>, <<"m","e","n","u">>>>],
       [key |-> <<"B","A","T","T","E","R","I","E","S">>,
        words |-> <<<<"b","a","t","t","e","r","y">>, <<"b","a","t","t","e","r","i","e","s">>, <<"i","n","v","o","i","c","e">>, <<"s","e","p","a","r","a","t","e">>>>],
       [key |-> <<"O","R","D","E","R","_","L","I","M","I","T","S">>,
        words |-> <<<<"l","i","m","i","t">>, <<"u","n","i","t">>, <<"m","a","x">>, <<"s","p","l","i","t">>, <<"m","i","n","i","m","u","m">>, <<"m","a","x","i","m","u","m">>>>],
       [key |-> <<"B","A","T","C","H","_","S","U","B">>,
        words |-> <<<<"b","a","t","c","h">>, <<"s","u","b">>, <<"f","i","f","o">>, <<"s","u","b","s","t","i","t","u","t","i","o","n">>, <<"r","e","p","l","a","c","e">>>>],
       [key |-> <<"D","E","L","I","V","E","R","Y">>,
        words |-> <<<<"d","e","l","i","v","e","r","y">>, <<"s","c","h","e","d","u","l","e">>, <<"d","a","t","e">>>>],
       [key |-> <<"N","O","T","E","S">>,
        words |-> <<<<"n","o","t","e">>, <<"c","o","m","m","e","n","t">>, <<"r","e","q","u","i","r","e","d">>, <<"m","e","n","t","i","o","n">>>>],
       [key |-> <<"F","O","R","M","S">>,
        words |-> <<<<"f","o","r","m">>, <<"e","x","a","m","p","l","e">>, <<"t","e","m","p","l","a","t","e">>>>],
       [key |-> <<"I","M","A","G","E","S">>,
        words |-> <<<<"i","m","a","g","e">>, <<"v","i","s","u","a","l">>, <<"s","e","e">>, <<"p","i","c","t","u","r","e">>, <<"s","h","o","w">>>>] >>

\* the matches of /\b([A-Z]{2})\b/g, from left to right
StateMatches(query) ==
    LET starts ==
            SelectSeq([i \in 1..(Len(query) - 1) |-> i],
                      LAMBDA i :
                          /\ query[i] \in DOMAIN LowerCaseOf
                          /\ query[i + 1] \in DOMAIN LowerCaseOf
                          /\ (i = 1 \/ ~IsWordChar(query[i - 1]))
                          /\ (i + 2 > Len(query) \/ ~IsWordChar(query[i + 2])))
    IN  [k \in DOMAIN starts |-> SubSeq(query, starts[k], starts[k] + 1)]

\* synonyms.some(word => queryLower.includes(word))
SomeIncluded(queryLower, words) ==
    \E k \in DOMAIN words : Includes(queryLower, words[k])

\* ImprovedQueryIntelligence.enhanceQuery
enhanceQuery(query) ==
    LET queryLower == toLowerCase(query)
        valid      == SelectSeq(StateMatches(query),
                                LAMBDA s : s \in US_STATE_ABBREVIATIONS)
        orderTypes == SelectSeq(orderTypeKeywords,
                                LAMBDA e : SomeIncluded(queryLower, e.words))
        detected   == SelectSeq(topicKeywords,
                                LAMBDA e : SomeIncluded(queryLower, e.words))
    IN  [ state     |-> IF valid = <<>> THEN NullString ELSE valid[1],
          orderType |-> IF orderTypes = <<>> THEN NullString ELSE orderTypes[1].key,
          topics    |-> [k \in DOMAIN detected |-> detected[k].key] ]

\* enhanceQuery, the tokens and the embedding of each query, computed once
enhanceQueryOf == [query \in Queries |-> enhanceQuery(query)]

tokenizeOf == [query \in Queries |-> tokenize(query)]

QueryEmbeddingOf ==
    [query \in Queries |-> createSimpleEmbedding(query, SemanticDim)]

\* ------------------------------------------------------------------------
\* vectorDatabase.js: search
\* ------------------------------------------------------------------------

\* this.chunks[i] past the end of the array
UndefinedChunk == MakeChunk(0, <<>>, <<>>, <<>>, <<>>, <<>>, FALSE, {"chunk"})

\* this.chunks[i], i counted from 0
ChunkAt(i) ==
    IF i + 1 \in DOMAIN vdbChunks THEN vdbChunks[i + 1] ELSE UndefinedChunk

\* Array.prototype.sort((a, b) => b.similarity - a.similarity): stable
RECURSIVE InsertBySimilarity(_, _)
InsertBySimilarity(sorted, r) ==
    IF sorted = <<>> THEN <<r>>
    ELSE IF Head(sorted).similarity >= r.similarity
         THEN <<Head(sorted)>> \o InsertBySimilarity(Tail(sorted), r)
         ELSE <<r>> \o sorted

RECURSIVE SortBySimilarity(_)
SortBySimilarity(rs) ==
    IF rs = <<>> THEN <<>>
    ELSE InsertBySimilarity(SortBySimilarity(SubSeq(rs, 1, Len(rs) - 1)),
                            rs[Len(rs)])

\* Array.prototype.slice(0, limit)
Slice(s, limit) == SubSeq(s, 1, Min(limit, Len(s)))

Ranked(chunkIndex, similarity, source) ==
    [ chunkIndex |-> chunkIndex, chunk |-> ChunkAt(chunkIndex),
      similarity |-> similarity, score |-> similarity, source |-> source ]

semanticSearch(query, limit) ==
    LET queryEmbedding == QueryEmbeddingOf[query]
        similarities ==
            [k \in DOMAIN vdbSemanticIndex |->
                Ranked(k - 1,
                       vdbCosineSimilarity(queryEmbedding, vdbSemanticIndex[k]),
                       "semantic")]
    IN  Slice(SortBySimilarity(similarities), limit)

\* createQueryTFIDF: the count of each vocabulary word in the query
createQueryTFIDF(query, vocabulary) ==
    LET queryWords == tokenizeOf[query]
    IN  [v \in DOMAIN vocabulary |-> SCALE * CountOf(queryWords, vocabulary[v])]

keywordSearch(query, limit) ==
    IF vdbKeywordIndex = Null THEN <<>>
    ELSE
    LET queryVector == createQueryTFIDF(query, vdbKeywordIndex.vocabulary)
        similarities ==
            [k \in DOMAIN vdbKeywordIndex.vectors |->
                Ranked(k - 1,
                       vdbCosineSimilarity(queryVector, vdbKeywordIndex.vectors[k]),
                       "keyword")]
    IN  Slice(SortBySimilarity(similarities), limit)

\* whether any clause of metadataSearch reads a property of chunk.metadata
ReadsMetadata(enhancedQuery) ==
    \/ enhancedQuery.state # NullString
    \/ enhancedQuery.orderType # NullString
    \/ Len(enhancedQuery.topics) > 0

\* the score metadataSearch gives one chunk
MetadataMatchScore(enhancedQuery, chunk) ==
    LET stateScore ==
            IF enhancedQuery.state # NullString
               /\ enhancedQuery.state \in Range(Tags(chunk, "states"))
            THEN SCALE ELSE 0
        orderTypeScore ==
            IF enhancedQuery.orderType # NullString
               /\ enhancedQuery.orderType \in Range(Tags(chunk, "sections"))
            THEN (8 * SCALE) \div 10 ELSE 0
        topicMatches ==
            Cardinality({k \in DOMAIN enhancedQuery.topics :
                            enhancedQuery.topics[k] \in Range(Tags(chunk, "topics"))})
        topicScore ==
            IF Len(enhancedQuery.topics) > 0
            THEN (((topicMatches * SCALE) \div Len(enhancedQuery.topics)) * 6) \div 10
            ELSE 0
    IN  stateScore + orderTypeScore + topicScore

\* metadataSearch: the ranking, or a TypeError on a chunk without metadata
metadataSearch(enhancedQuery, limit) ==
    IF ReadsMetadata(enhancedQuery)
       /\ \E i \in DOMAIN vdbChunks : "metadata" \in vdbChunks[i].missing
    THEN [value |-> <<>>, threw |-> TRUE]
    ELSE
    LET all == [k \in DOMAIN vdbChunks |->
                   Ranked(k - 1, MetadataMatchScore(enhancedQuery, vdbChunks[k]),
                          "metadata")]
        results == SelectSeq(all, LAMBDA r : r.score > 0)
    IN  [value |-> Slice(SortBySimilarity(results), limit), threw |-> FALSE]

\* the rank of an item no ranking has set
Infinity == 2147483647

\* the RRF parameter
RRF_K == 60

\* units per 1.0 of a reciprocal rank
RRF_SCALE == SCALE * SCALE * 10

\* 1 / (k + rank)
ReciprocalRank(rank) ==
    IF rank = Infinity THEN 0 ELSE RRF_SCALE \div (RRF_K + rank)

\* the positions of the results of a ranking that are about a chunk index
PositionsOf(results, key) == {r \in DOMAIN results : results[r].chunkIndex = key}

\* item.ranks.<ranking> after the forEach over that ranking
RankIn(results, key) ==
    IF PositionsOf(results, key) = {} THEN Infinity
    ELSE CHOOSE r \in PositionsOf(results, key) :
             \A q \in PositionsOf(results, key) : q <= r

\* item.scores.<ranking> after the forEach over that ranking
SimilarityIn(results, key) ==
    IF PositionsOf(results, key) = {} THEN 0
    ELSE results[RankIn(results, key)].similarity

\* hybridSearch: reciprocal rank fusion of the three rankings
hybridSearch(semanticResults, keywordResults, metadataResults) ==
    LET inOrder == semanticResults \o keywordResults \o metadataResults
        keys    == Dedupe([r \in DOMAIN inOrder |-> inOrder[r].chunkIndex])
        first(key) ==
            inOrder[CHOOSE r \in PositionsOf(inOrder, key) :
                        \A q \in PositionsOf(inOrder, key) : r <= q]
        fused(key) ==
            LET ranks == [ semantic |-> RankIn(semanticResults, key),
                           keyword  |-> RankIn(keywordResults, key),
                           metadata |-> RankIn(metadataResults, key) ]
                rrfScore == ReciprocalRank(ranks.semantic)
                              + ReciprocalRank(ranks.keyword)
                              + ReciprocalRank(ranks.metadata)
            IN  [ chunk      |-> first(key).chunk,
                  similarity |-> rrfScore,
                  \* Math.round(rrfScore * 100) / 100, in hundredths
                  relevance_score |-> (rrfScore * 100 + RRF_SCALE \div 2) \div RRF_SCALE,
                  scores     |-> [ semantic |-> SimilarityIn(semanticResults, key),
                                   keyword  |-> SimilarityIn(keywordResults, key),
                                   metadata |-> SimilarityIn(metadataResults, key) ],
                  ranks      |-> ranks ]
    IN  SortBySimilarity([k \in DOMAIN keys |-> fused(keys[k])])

\* metadata.<field> is there (an empty list counts)
HasField(chunk, field) ==
    "metadata" \notin chunk.missing /\ field \notin chunk.missing

\* the predicate of applyAdvancedFilters
PassesFilters(chunk, filters) ==
    /\ (filters.state # NullString /\ HasField(chunk, "states"))
           => filters.state \in Range(chunk.metadata.states)
    /\ (filters.orderType # NullString /\ HasField(chunk, "sections"))
           => filters.orderType \in Range(chunk.metadata.sections)
    /\ (Len(filters.topics) > 0 /\ HasField(chunk, "topics"))
           => Range(filters.topics) \cap Range(chunk.metadata.topics) # {}

\* applyAdvancedFilters: the results kept, or a TypeError on a result
\* whose chunk is undefined
applyAdvancedFilters(results, filters) ==
    IF \E r \in DOMAIN results : results[r].chunk = UndefinedChunk
    THEN [value |-> <<>>, threw |-> TRUE]
    ELSE [value |-> SelectSeq(results, LAMBDA r : PassesFilters(r.chunk, filters)),
          threw |-> FALSE]

\* a null filters argument
NullFilters == [null |-> TRUE]

\* the filters arguments of the searches
FilterArgs == {NullFilters, MakeFilters(<<ZZ>>, <<>>, <<>>, FALSE)}

Returned(call, results) ==
    [ op |-> "search", query |-> call.query, filters |-> call.filters,
      limit |-> call.limit, calledAt |-> call.calledAt, threw |-> FALSE, error |-> "", results |-> results ]

Rejected(call, error) ==
    [ op |-> "search", query |-> call.query, filters |-> call.filters,
      limit |-> call.limit, calledAt |-> call.calledAt, threw |-> TRUE, error |-> error, results |-> <<>> ]

\* history: how many builds had been called, and where the latest one
\* stood, when a search is called
CalledAt == [builds |-> vdbBuilds, pc |-> vdbPc]

\* search, from its call to "await this.semanticSearch(query, limit * 2)":
\* the local variables it is suspended with
searchUntilAwait(query, filters, limit) ==
    [ pending |-> TRUE, query |-> query, filters |-> filters, limit |-> limit,
      calledAt |-> CalledAt,
      enhancedQuery   |-> enhanceQueryOf[query],
      semanticResults |-> semanticSearch(query, limit * 2) ]

\* search, from that await to its return
searchAfterAwait(call) ==
    LET keywordResults  == keywordSearch(call.query, call.limit * 2)
        metadataResults == metadataSearch(call.enhancedQuery, call.limit * 2)
        fusedResults    == hybridSearch(call.semanticResults, keywordResults,
                                        metadataResults.value)
        \* {...filters, state, orderType, topics}: the three properties
        \* the filter reads all come from enhancedQuery
        combinedFilters == call.enhancedQuery
        filtering       == call.filters # NullFilters
                           \/ ReadsMetadata(call.enhancedQuery)
        filteredResults == IF filtering
                           THEN applyAdvancedFilters(fusedResults, combinedFilters)
                           ELSE [value |-> fusedResults, threw |-> FALSE]
    IN  IF metadataResults.threw \/ filteredResults.threw
        THEN Rejected(call, "TypeError")
        ELSE Returned(call, Slice(filteredResults.value, call.limit))

\* search (vectorDatabase.js) when nothing runs between its call and its
\* return; on an instance that is not ready it returns [] at once
vdbSearch(query, filters, limit) ==
    IF ~isReady
    THEN Returned([query |-> query, filters |-> filters, limit |-> limit,
                   calledAt |-> CalledAt], <<>>)
    ELSE searchAfterAwait(searchUntilAwait(query, filters, limit))

\* getStats (vectorDatabase.js)
vdbGetStats ==
    [ totalChunks    |-> Len(vdbChunks),
      vocabularySize |-> IF vdbKeywordIndex = Null THEN 0
                         ELSE Len(vdbKeywordIndex.vocabulary),
      imageChunks    |-> IF vdbImageIndex = Null THEN 0 ELSE Len(vdbImageIndex),
      isReady        |-> isReady ]

\* ------------------------------------------------------------------------
\* githubIntegration.js: QueryIntelligence
\* ------------------------------------------------------------------------

\* the upper-case letter of each lower-case letter
UpperCaseOf ==
    [c \in Range(LowerChars) |->
        UpperChars[CHOOSE i \in DOMAIN LowerChars : LowerChars[i] = c]]

\* String.prototype.toUpperCase
toUpperCase(s) ==
    [i \in 1..Len(s) |-> IF s[i] \in DOMAIN UpperCaseOf THEN UpperCaseOf[s[i]] ELSE s[i]]

\* Object.entries(this.stateMappings)
stateMappings ==
    << [text |-> <<"o","h","i","o">>, abbr |-> <<"O","H">>],
       [text |-> <<"o","h">>, abbr |-> <<"O","H">>],
       [text |-> <<"m","a","r","y","l","a","n","d">>, abbr |-> <<"M","D">>],
       [text |-> <<"m","d">>, abbr |-> <<"M","D">>],
       [text |-> <<"n","e","w"," ","j","e","r","s","e","y">>, abbr |-> <<"N","J">>],
       [text |-> <<"n","j">>, abbr |-> <<"N","J">>],
       [text |-> <<"j","e","r","s","e","y">>, abbr |-> <<"N","J">>],
       [text |-> <<"i","l","l","i","n","o","i","s">>, abbr |-> <<"I","L">>],
       [text |-> <<"i","l">>, abbr |-> <<"I","L">>],
       [text |-> <<"n","e","w"," ","y","o","r","k">>, abbr |-> <<"N","Y">>],
       [text |-> <<"n","y">>, abbr |-> <<"N","Y">>],
       [text |-> <<"n","e","v","a","d","a">>, abbr |-> <<"N","V">>],
       [text |-> <<"n","v">>, abbr |-> <<"N","V">>],
       [text |-> <<"m","a","s","s","a","c","h","u","s","e","t","t","s">>, abbr |-> <<"M","A">>],
       [text |-> <<"m","a">>, abbr |-> <<"M","A">>],
       [text |-> <<"m","a","s","s">>, abbr |-> <<"M","A">>],
       [text |-> <<"c","a","l","i","f","o","r","n","i","a">>, abbr |-> <<"C","A">>],
       [text |-> <<"c","a">>, abbr |-> <<"C","A">>],
       [text |-> <<"t","e","x","a","s">>, abbr |-> <<"T","X">>],
       [text |-> <<"t","x">>, abbr |-> <<"T","X">>],
       [text |-> <<"f","l","o","r","i","d","a">>, abbr |-> <<"F","L">>],
       [text |-> <<"f","l">>, abbr |-> <<"F","L">>],
       [text |-> <<"p","e","n","n","s","y","l","v","a","n","i","a">>, abbr |-> <<"P","A">>],
       [text |-> <<"p","a">>, abbr |-> <<"P","A">>] >>

validStates ==
    << <<"O","H">>, <<"M","D">>, <<"N","J">>, <<"I","L">>, <<"N","Y">>, <<"N","V">>, <<"M","A">>, <<"C","A">>, <<"T","X">>, <<"F","L">>, <<"P","A">> >>

\* A regular expression of the constructor: the text a, then (sep) nothing,
\* \s+, [\s-]? or .*, then the text b; lead and trail say whether it
\* starts and ends with \b.  All of them carry the flag i.
Pattern(lead, a, sep, b, trail) ==
    [ lead |-> lead, a |-> a, sep |-> sep, b |-> b, trail |-> trail ]

Literal(a) == Pattern(FALSE, a, "none", <<>>, FALSE)

\* Object.entries(this.orderTypePatterns)
orderTypePatterns ==
    << [key |-> <<"R","I","S","E">>,
        patterns |-> <<Pattern(TRUE, <<"r","i","s","e">>, "none", <<>>, TRUE),
                        Pattern(TRUE, <<"i","n","t","e","r","n","a","l">>, "none", <<>>, TRUE),
                        Pattern(TRUE, <<"r","i","s","e">>, "spaces", <<"o","r","d","e","r">>, FALSE),
                        Pattern(TRUE, <<"i","n","t","e","r","n","a","l">>, "spaces", <<"o","r","d","e","r">>, FALSE),
                        Pattern(TRUE, <<"f","o","r">>, "spaces", <<"r","i","s","e">>, TRUE)>>],
       [key |-> <<"R","E","G","U","L","A","R">>,
        patterns |-> <<Pattern(TRUE, <<"r","e","g","u","l","a","r">>, "none", <<>>, TRUE),
                        Pattern(TRUE, <<"w","h","o","l","e","s","a","l","e">>, "none", <<>>, TRUE),
                        Pattern(TRUE, <<"r","e","g","u","l","a","r">>, "spaces", <<"o","r","d","e","r">>, FALSE),
                        Pattern(TRUE, <<"n","o","r","m","a","l">>, "spaces", <<"o","r","d","e","r">>, FALSE),
                        Pattern(TRUE, <<"n","o","n">>, "optional", <<"r","i","s","e">>, TRUE)>>] >>

\* Object.entries(this.topicPatterns)
topicPatterns ==
    << [key |-> <<"P","R","I","C","I","N","G">>,
        patterns |-> <<Literal(<<"p","r","i","c","e">>),
                        Literal(<<"p","r","i","c","i","n","g">>),
                        Literal(<<"c","o","s","t">>),
                        Literal(<<"d","i","s","c","o","u","n","t">>),
                        Pattern(FALSE, <<"m","e","n","u">>, "spaces", <<"p","r","i","c","e">>, FALSE),
                        Pattern(FALSE, <<"l","t">>, "spaces", <<"p","r","i","c","e">>, FALSE)>>],
       [key |-> <<"B","A","T","T","E","R","I","E","S">>,
        patterns |-> <<Literal(<<"b","a","t","t","e","r">>),
                        Pattern(FALSE, <<"s","e","p","a","r","a","t","e">>, "spaces", <<"i","n","v","o","i","c","e">>, FALSE)>>],
       [key |-> <<"B","A","T","C","H","_","S","U","B">>,
        patterns |-> <<Literal(<<"b","a","t","c","h">>),
                        Literal(<<"s","p","l","i","t">>),
                        Pattern(FALSE, <<"b","a","t","c","h">>, "spaces", <<"s","u","b">>, FALSE),
                        Literal(<<"s","u","b","s","t","i","t","u","t">>),
                        Literal(<<"f","i","f","o">>)>>],
       [key |-> <<"D","E","L","I","V","E","R","Y","_","D","A","T","E">>,
        patterns |-> <<Literal(<<"d","e","l","i","v","e","r","y">>),
                        Literal(<<"d","a","t","e">>),
                        Literal(<<"s","c","h","e","d","u","l","e">>)>>],
       [key |-> <<"I","N","V","O","I","C","E","S">>,
        patterns |-> <<Literal(<<"i","n","v","o","i","c","e">>),
                        Literal(<<"d","r","a","f","t">>),
                        Literal(<<"b","i","l","l","i","n","g">>)>>],
       [key |-> <<"C","A","S","E","_","S","I","Z","E">>,
        patterns |-> <<Literal(<<"c","a","s","e">>),
                        Literal(<<"s","i","z","e">>),
                        Literal(<<"u","n","i","t","s">>),
                        Literal(<<"l","o","o","s","e">>)>>],
       [key |-> <<"O","R","D","E","R","_","L","I","M","I","T">>,
        patterns |-> <<Literal(<<"l","i","m","i","t">>),
                        Literal(<<"m","a","x","i","m","u","m">>),
                        Pattern(FALSE, <<"m","a","x">>, "spaces", <<"u","n","i","t">>, FALSE),
                        Literal(<<"m","i","n">>),
                        Literal(<<"m","i","n","i","m","u","m">>)>>],
       [key |-> <<"L","E","S","S","_","A","V","A","I","L","A","B","L","E">>,
        patterns |-> <<Pattern(FALSE, <<"l","e","s","s">>, "spaces", <<"a","v","a","i","l","a","b","l","e">>, FALSE),
                        Literal(<<"p","a","r","t","i","a","l">>),
                        Pattern(FALSE, <<"n","o","t">>, "spaces", <<"e","n","o","u","g","h">>, FALSE)>>],
       [key |-> <<"S","A","M","P","L","E","S">>,
        patterns |-> <<Literal(<<"s","a","m","p","l","e">>),
                        Literal(<<"t","e","s","t">>),
                        Literal(<<"$","0",".","0","1">>)>>],
       [key |-> <<"C","O","M","P","L","I","A","N","C","E">>,
        patterns |-> <<Literal(<<"c","o","m","p","l","i","a","n","c","e">>),
                        Pattern(FALSE, <<"p","r","o","p">>, "any", <<"6","5">>, FALSE),
                        Literal(<<"r","e","g","u","l","a","t","i","o","n">>),
                        Literal(<<"w","a","r","n","i","n","g">>)>>] >>

\* Object.entries(this.questionPatterns)
questionPatterns ==
    << [key |-> <<"P","R","O","C","E","D","U","R","A","L">>,
        patterns |-> <<Literal(<<"h","o","w">>),
                        Literal(<<"w","h","a","t"," ","s","t","e","p","s">>),
                        Literal(<<"p","r","o","c","e","s","s">>),
                        Literal(<<"p","r","o","c","e","d","u","r","e">>)>>],
       [key |-> <<"P","O","L","I","C","Y">>,
        patterns |-> <<Literal(<<"d","o"," ","w","e">>),
                        Literal(<<"s","h","o","u","l","d"," ","w","e">>),
                        Literal(<<"c","a","n"," ","w","e">>),
                        Literal(<<"p","o","l","i","c","y">>),
                        Literal(<<"r","u","l","e">>)>>],
       [key |-> <<"L","O","C","A","T","I","O","N">>,
        patterns |-> <<Literal(<<"w","h","e","r","e">>),
                        Literal(<<"w","h","i","c","h">>),
                        Literal(<<"l","o","c","a","t","i","o","n">>)>>],
       [key |-> <<"D","E","F","I","N","I","T","I","O","N">>,
        patterns |-> <<Literal(<<"w","h","a","t"," ","i","s">>),
                        Literal(<<"w","h","a","t"," ","a","r","e">>),
                        Literal(<<"d","e","f","i","n","e">>),
                        Literal(<<"m","e","a","n","i","n","g">>)>>],
       [key |-> <<"C","O","M","P","A","R","I","S","O","N">>,
        patterns |-> <<Literal(<<"d","i","f","f","e","r","e","n","c","e">>),
                        Literal(<<"c","o","m","p","a","r","e">>),
                        Literal(<<"v","e","r","s","u","s">>),
                        Literal(<<"v","s">>)>>] >>

\* \b before position p of s (p = Len(s) + 1: at the end of s)
WordBoundary(s, p) ==
    (p > 1 /\ IsWordChar(s[p - 1])) # (p <= Len(s) /\ IsWordChar(s[p]))

\* whether the characters between the two texts of a pattern match sep
GapOk(sep, gap) ==
    CASE sep = "none"     -> gap = <<>>
      [] sep = "spaces"   -> gap # <<>> /\ \A k \in DOMAIN gap : IsSpaceChar(gap[k])
      [] sep = "optional" -> Len(gap) <= 1
                             /\ \A k \in DOMAIN gap : IsSpaceChar(gap[k]) \/ gap[k] = "-"
      [] sep = "any"      -> \A k \in DOMAIN gap : gap[k] \notin {"\n", "\r"}

\* RegExp.prototype.test
test(pattern, str) ==
    LET s == toLowerCase(str)
    IN  \E i \in 1..(Len(s) + 1), g \in 0..Len(s) :
           LET afterA == i + Len(pattern.a)
               startB == afterA + g
               end    == startB + Len(pattern.b)
           IN  /\ end <= Len(s) + 1
               /\ SubSeq(s, i, afterA - 1) = pattern.a
               /\ GapOk(pattern.sep, SubSeq(s, afterA, startB - 1))
               /\ SubSeq(s, startB, end - 1) = pattern.b
               /\ pattern.lead => WordBoundary(s, i)
               /\ pattern.trail => WordBoundary(s, end)

SomeMatches(patterns, queryLower) ==
    \E k \in DOMAIN patterns : test(patterns[k], queryLower)

\* extractState without the state names: only the stand-alone abbreviations
extractStateByAbbreviation(queryLower) ==
    LET matches == SelectSeq(StateMatches(toUpperCase(queryLower)),
                             LAMBDA match : match \in Range(validStates))
    IN  IF matches # <<>> THEN matches[1] ELSE NullString

\* extractState
extractState(queryLower) ==
    LET direct  == SelectSeq(stateMappings,
                             LAMBDA e : Includes(queryLower, e.text))
        matches == SelectSeq(StateMatches(toUpperCase(queryLower)),
                             LAMBDA match : match \in Range(validStates))
    IN  IF direct # <<>> THEN direct[1].abbr
        ELSE IF matches # <<>> THEN matches[1]
        ELSE NullString

\* extractOrderType
extractOrderType(queryLower) ==
    LET found == SelectSeq(orderTypePatterns,
                           LAMBDA e : SomeMatches(e.patterns, queryLower))
    IN  IF found = <<>> THEN NullString ELSE found[1].key

\* extractTopics
extractTopics(queryLower) ==
    LET found == SelectSeq(topicPatterns,
                           LAMBDA e : SomeMatches(e.patterns, queryLower))
    IN  [k \in DOMAIN found |-> found[k].key]

\* detectQuestionType
detectQuestionType(queryLower) ==
    LET found == SelectSeq(questionPatterns,
                           LAMBDA e : SomeMatches(e.patterns, queryLower))
    IN  IF found = <<>> THEN <<"G","E","N","E","R","A","L">> ELSE found[1].key

imageKeywords ==
    << <<"i","m","a","g","e">>, <<"p","i","c","t","u","r","e">>, <<"v","i","s","u","a","l">>, <<"s","h","o","w">>, <<"s","e","e">>, <<"e","x","a","m","p","l","e">>, <<"f","o","r","m">>, <<"t","e","m","p","l","a","t","e">>, <<"s","c","r","e","e","n","s","h","o","t">>, <<"d","i","a","g","r","a","m">> >>

\* requiresImage
requiresImage(queryLower) == SomeIncluded(queryLower, imageKeywords)

proceduralKeywords ==
    << <<"h","o","w">>, <<"s","t","e","p","s">>, <<"p","r","o","c","e","s","s">>, <<"p","r","o","c","e","d","u","r","e">>, <<"w","o","r","k","f","l","o","w">>, <<"g","u","i","d","e">>, <<"t","u","t","o","r","i","a","l">>, <<"i","n","s","t","r","u","c","t","i","o","n","s">> >>

\* isProcedural
isProcedural(queryLower) == SomeIncluded(queryLower, proceduralKeywords)

\* the stop word list of QueryIntelligence.extractKeywords
qiStopWords ==
    stopWords \cup { <<"w","h","a","t">>, <<"w","h","e","n">>, <<"w","h","e","r","e">>, <<"w","h","o">>, <<"w","h","y">>, <<"h","o","w">>, <<"w","h","i","c","h">> }

\* QueryIntelligence.extractKeywords
qiExtractKeywords(query) ==
    LET words == SelectSeq(SplitWhitespace(ReplaceNonWord(toLowerCase(query))),
                           LAMBDA word : Len(word) > 2 /\ word \notin qiStopWords)
    IN  SubSeq(words, 1, Min(10, Len(words)))

\* the confidence before Math.min(confidence, 1.0), in SCALE units
RawConfidence(state, orderType, topics) ==
    SCALE \div 2
      + (IF state # NullString THEN SCALE \div 5 ELSE 0)
      + (IF orderType # NullString THEN SCALE \div 5 ELSE 0)
      + (IF Len(topics) > 0 THEN (SCALE \div 10) * Min(Len(topics), 3) ELSE 0)

\* calculateConfidence counting from 0 instead of from 0.5
calculateConfidenceFromZero(state, orderType, topics) ==
    Min(RawConfidence(state, orderType, topics) - SCALE \div 2, SCALE)

calculateConfidenceUnclamped(state, orderType, topics) ==
    RawConfidence(state, orderType, topics)

\* calculateConfidence, in SCALE units
calculateConfidence(state, orderType, topics) ==
    Min(RawConfidence(state, orderType, topics), SCALE)

\* QueryIntelligence.enhanceQuery
qiEnhanceQuery(query) ==
    LET queryLower == toLowerCase(query)
        detectedState     == extractState(queryLower)
        detectedOrderType == extractOrderType(queryLower)
        detectedTopics    == extractTopics(queryLower)
    IN  [ state         |-> detectedState,
          orderType     |-> detectedOrderType,
          topics        |-> detectedTopics,
          questionType  |-> detectQuestionType(queryLower),
          requiresImage |-> requiresImage(queryLower),
          isProcedural  |-> isProcedural(queryLower),
          keywords      |-> qiExtractKeywords(query),
          originalQuery |-> query,
          confidence    |-> calculateConfidence(detectedState, detectedOrderType,
                                                detectedTopics) ]

\* generateSearchFilters
generateSearchFilters(enhancedQuery) ==
    MakeFilters(
        IF enhancedQuery.state # NullString THEN <<enhancedQuery.state>> ELSE <<>>,
        IF enhancedQuery.orderType # NullString
        THEN <<enhancedQuery.orderType>> ELSE <<>>,
        enhancedQuery.topics,
        enhancedQuery.requiresImage)

\* the analysis of each question, computed once
qiEnhanceQueryOf == [query \in AppQueries |-> qiEnhanceQuery(query)]

\* ------------------------------------------------------------------------
\* advancedVectorDB.js: operations.  initialize is an async function: it
\* runs up to its first await when called and is resumed once per await;
\* search has no await and runs to completion when called.
\* ------------------------------------------------------------------------

\* localStorage.getItem of an item that was never set
NoItem == [present |-> FALSE, vectorDbReady |-> FALSE]

\* the fetchWithRetry calls that run side by side
MaxCalls == 2

Calls == 1..MaxCalls

\* a call of fetchWithRetry that has not been made
NotCalled == [phase |-> "none", attempt |-> 0, fetched |-> <<>>]

Init ==
    /\ instanceOf \in {"advancedVectorDB.js", "vectorDatabase.js"}
    /\ chunks = <<>>
    /\ semanticIndex = EmptyMap
    /\ keywordIndex = EmptyMap
    /\ metadataIndex = UnbuiltMetadataIndex
    /\ imageIndex = EmptyMap
    /\ initialized = FALSE
    /\ pc = "idle"
    /\ outcome = "none"
    /\ builds = 0
    /\ before = [ chunks |-> <<>>, semanticIndex |-> EmptyMap,
                  keywordIndex |-> EmptyMap,
                  metadataIndex |-> UnbuiltMetadataIndex,
                  imageIndex |-> EmptyMap, initialized |-> FALSE ]
    /\ ret = NoReturn
    /\ vdbChunks = <<>>
    /\ vdbSemanticIndex = Null
    /\ vdbMetadataIndex = Null
    /\ vdbKeywordIndex = Null
    /\ vdbImageIndex = Null
    /\ metadataStore = <<>>
    /\ isReady = FALSE
    /\ vdbPc = "idle"
    /\ vdbLocal = NoLocal
    /\ vdbOutcome = "none"
    /\ vdbBuilds = 0
    /\ vdbCall = NoCall
    /\ vdbRet = NoResult
    /\ vectorDbReady = FALSE
    /\ gti_app_state = NoItem
    /\ appPc = "loading"
    /\ synced = 0
    /\ isProcessing = FALSE
    /\ requests = 0
    /\ result = "none"
    /\ messages = 0
    /\ gti_chat_history = <<>>
    /\ exchanges = [accepted |-> 0, ignored |-> 0, answered |-> 0,
                    saved |-> 0]
    /\ calls = [c \in Calls |-> NotCalled]

\* the step of initialize after a builder has run: suspended at the await,
\* or rejected when the builder threw
Await(r, next) ==
    /\ pc' = IF r.threw THEN "idle" ELSE next
    /\ outcome' = IF r.threw THEN "threw" ELSE "running"

\* initialize(chunks), up to "await this.buildSemanticIndex(chunks)"
Initialize(cs) ==
    /\ instanceOf = "advancedVectorDB.js"
    /\ pc = "idle"
    /\ builds < MaxBuilds
    /\ builds' = builds + 1
    /\ before' = Fields
    /\ chunks' = cs
    /\ LET r == buildSemanticIndex(semanticIndex, cs)
       IN  semanticIndex' = r.index /\ Await(r, "keyword")
    /\ ret' = NoReturn
    /\ UNCHANGED <<keywordIndex, metadataIndex, imageIndex, initialized>>
    /\ UNCHANGED <<instanceOf, vdbVars, appVars>>

\* resumed: "await this.buildKeywordIndex(chunks)"
ResumeKeyword ==
    /\ instanceOf = "advancedVectorDB.js"
    /\ pc = "keyword"
    /\ LET r == buildKeywordIndex(keywordIndex, chunks)
       IN  keywordIndex' = r.index /\ Await(r, "metadata")
    /\ ret' = NoReturn
    /\ UNCHANGED <<chunks, semanticIndex, metadataIndex, imageIndex,
                   initialized, builds, before>>
    /\ UNCHANGED <<instanceOf, vdbVars, appVars>>

\* resumed: "await this.buildMetadataIndex(chunks)"
ResumeMetadata ==
    /\ instanceOf = "advancedVectorDB.js"
    /\ pc = "metadata"
    /\ LET r == buildMetadataIndex(metadataIndex, chunks)
       IN  metadataIndex' = r.index /\ Await(r, "image")
    /\ ret' = NoReturn
    /\ UNCHANGED <<chunks, semanticIndex, keywordIndex, imageIndex,
                   initialized, builds, before>>
    /\ UNCHANGED <<instanceOf, vdbVars, appVars>>

\* resumed: "await this.buildImageIndex(chunks)"
ResumeImage ==
    /\ instanceOf = "advancedVectorDB.js"
    /\ pc = "image"
    /\ LET r == buildImageIndex(imageIndex, chunks)
       IN  imageIndex' = r.index /\ Await(r, "finish")
    /\ ret' = NoReturn
    /\ UNCHANGED <<chunks, semanticIndex, keywordIndex, metadataIndex,
                   initialized, builds, before>>
    /\ UNCHANGED <<instanceOf, vdbVars, appVars>>

\* resumed: "this.initialized = true" and the return
Finish ==
    /\ instanceOf = "advancedVectorDB.js"
    /\ pc = "finish"
    /\ initialized' = TRUE
    /\ pc' = "idle"
    /\ outcome' = "ok"
    /\ ret' = NoReturn
    /\ UNCHANGED <<chunks, semanticIndex, keywordIndex, metadataIndex,
                   imageIndex, builds, before>>
    /\ UNCHANGED <<instanceOf, vdbVars, appVars>>

Reverse(s) == [i \in 1..Len(s) |-> s[Len(s) + 1 - i]]

\* a search that orders this.chunks in place while it ranks
SearchReorderingChunks(query, filters, maxResults) ==
    /\ instanceOf = "advancedVectorDB.js"
    /\ ret = NoReturn
    /\ ret' = search(query, filters, maxResults)
    /\ chunks' = Reverse(chunks)
    /\ UNCHANGED <<semanticIndex, keywordIndex, metadataIndex,
                   imageIndex, initialized, pc, outcome, builds, before>>
    /\ UNCHANGED <<instanceOf, vdbVars, appVars>>

\* a call of search; its caller holds no earlier result
Search(query, filters, maxResults) ==
    /\ instanceOf = "advancedVectorDB.js"
    /\ ret = NoReturn
    /\ ret' = search(query, filters, maxResults)
    /\ UNCHANGED <<chunks, semanticIndex, keywordIndex, metadataIndex,
                   imageIndex, initialized, pc, outcome, builds, before>>
    /\ UNCHANGED <<instanceOf, vdbVars, appVars>>

\* the caller of search drops the result it was given
Discard ==
    /\ instanceOf = "advancedVectorDB.js"
    /\ ret # NoReturn
    /\ ret' = NoReturn
    /\ UNCHANGED <<chunks, semanticIndex, keywordIndex, metadataIndex,
                   imageIndex, initialized, pc, outcome, builds, before>>
    /\ UNCHANGED <<instanceOf, vdbVars, appVars>>

\* { maxResults: 5 }
AnswerMaxResults == 5

\* searchAndAnswer (app.js), the search with query intelligence: the query
\* is analysed, the filters are generated from the analysis, and the
\* database is searched with them
SearchAndAnswer(query) ==
    /\ instanceOf = "advancedVectorDB.js"
    /\ ret = NoReturn
    /\ LET queryAnalysis == qiEnhanceQueryOf[query]
           filters       == generateSearchFilters(queryAnalysis)
       IN  ret' = [search(query, filters, AnswerMaxResults)
                       EXCEPT !.op = "searchAndAnswer"]
    /\ UNCHANGED <<chunks, semanticIndex, keywordIndex, metadataIndex,
                   imageIndex, initialized, pc, outcome, builds, before>>
    /\ UNCHANGED <<instanceOf, vdbVars, appVars>>

\* clearAllData (settingsManager.js): it removes gti_chunks and
\* gti_chat_history (not gti_app_state), resets state.vectorDbReady, assigns
\* "this.app.vectorDatabase.chunks = []" and calls clearChat, which empties
\* this.messages and writes them to gti_chat_history.  It runs in the task of
\* a click, after the microtasks of a pending initialize; isReady is no field
\* of this class, and nothing reads the property the second assignment adds.
ClearAllData ==
    /\ instanceOf = "advancedVectorDB.js"
    /\ pc = "idle"
    /\ chunks' = <<>>
    /\ vectorDbReady' = FALSE
    /\ messages' = 0
    /\ gti_chat_history' = <<>>
    /\ UNCHANGED <<semanticIndex, keywordIndex, metadataIndex, imageIndex,
                   initialized, pc, outcome, builds, before, ret>>
    /\ UNCHANGED <<gti_app_state, appPc, synced, isProcessing, requests,
                   result, exchanges, calls>>
    /\ UNCHANGED <<instanceOf, vdbVars>>

\* ------------------------------------------------------------------------
\* vectorDatabase.js: operations.  buildFromChunks and search are async
\* functions: each runs up to its await when called and is resumed once.
\* ------------------------------------------------------------------------

\* buildFromChunks(chunks), up to "await this.createEnhancedEmbeddings(chunks)"
BuildFromChunks(cs) ==
    /\ instanceOf = "vectorDatabase.js"
    /\ vdbPc = "idle"
    /\ vdbBuilds < MaxBuilds
    /\ vdbBuilds' = vdbBuilds + 1
    /\ vdbChunks' = cs
    /\ LET r == createEnhancedEmbeddingsOf[cs]
       IN  IF r.threw
           THEN vdbPc' = "idle" /\ vdbOutcome' = "threw" /\ vdbLocal' = NoLocal
           ELSE /\ vdbPc' = "resume"
                /\ vdbOutcome' = "running"
                /\ vdbLocal' = [chunks |-> cs, semanticEmbeddings |-> r.value]
    /\ vdbRet' = NoResult
    /\ UNCHANGED <<vdbSemanticIndex, vdbMetadataIndex, vdbKeywordIndex,
                   vdbImageIndex, metadataStore, isReady, vdbCall>>
    /\ UNCHANGED <<instanceOf, advVars, appVars>>

\* resumed: the rest of buildFromChunks, which has no further await
BuildResume ==
    /\ instanceOf = "vectorDatabase.js"
    /\ vdbPc = "resume"
    /\ vdbPc' = "idle"
    /\ vdbLocal' = NoLocal
    /\ LET metadataEmbeddings == createMetadataEmbeddingsOf[vdbLocal.chunks]
           keywordFeatures    == createKeywordFeaturesOf[vdbLocal.chunks]
       IN  IF keywordFeatures.threw
           THEN /\ vdbOutcome' = "threw"
                /\ UNCHANGED <<vdbSemanticIndex, vdbMetadataIndex,
                               vdbKeywordIndex, vdbImageIndex, metadataStore,
                               isReady>>
           ELSE /\ vdbOutcome' = "ok"
                /\ vdbSemanticIndex' = vdbLocal.semanticEmbeddings
                /\ vdbMetadataIndex' = metadataEmbeddings
                /\ vdbKeywordIndex' = keywordFeatures.value
                /\ vdbImageIndex' = createImageIndex(vdbLocal.chunks)
                /\ metadataStore' = createMetadataStore(metadataStore, vdbLocal.chunks)
                /\ isReady' = TRUE
    /\ vdbRet' = NoResult
    /\ UNCHANGED <<vdbChunks, vdbBuilds, vdbCall>>
    /\ UNCHANGED <<instanceOf, advVars, appVars>>

\* a call of search, up to its await, or to its return on an instance that
\* is not ready; its caller holds no earlier result
SearchCall(query, filters, limit) ==
    /\ instanceOf = "vectorDatabase.js"
    /\ vdbRet = NoResult
    /\ ~vdbCall.pending
    /\ IF ~isReady
       THEN /\ vdbRet' = vdbSearch(query, filters, limit)
            /\ vdbCall' = vdbCall
       ELSE /\ vdbCall' = searchUntilAwait(query, filters, limit)
            /\ vdbRet' = vdbRet
    /\ UNCHANGED <<vdbChunks, vdbSemanticIndex, vdbMetadataIndex,
                   vdbKeywordIndex, vdbImageIndex, metadataStore, isReady,
                   vdbPc, vdbLocal, vdbOutcome, vdbBuilds>>
    /\ UNCHANGED <<instanceOf, advVars, appVars>>

\* resumed: the rest of search
SearchResume ==
    /\ instanceOf = "vectorDatabase.js"
    /\ vdbCall.pending
    /\ vdbRet' = searchAfterAwait(vdbCall)
    /\ vdbCall' = NoCall
    /\ UNCHANGED <<vdbChunks, vdbSemanticIndex, vdbMetadataIndex,
                   vdbKeywordIndex, vdbImageIndex, metadataStore, isReady,
                   vdbPc, vdbLocal, vdbOutcome, vdbBuilds>>
    /\ UNCHANGED <<instanceOf, advVars, appVars>>

\* the caller of search drops the result it was given
DiscardResult ==
    /\ instanceOf = "vectorDatabase.js"
    /\ vdbRet # NoResult
    /\ vdbRet' = NoResult
    /\ UNCHANGED <<vdbChunks, vdbSemanticIndex, vdbMetadataIndex,
                   vdbKeywordIndex, vdbImageIndex, metadataStore, isReady,
                   vdbPc, vdbLocal, vdbOutcome, vdbBuilds, vdbCall>>
    /\ UNCHANGED <<instanceOf, advVars, appVars>>

Next ==
    \/ \E cs \in Collections : Initialize(cs)
    \/ ResumeKeyword
    \/ ResumeMetadata
    \/ ResumeImage
    \/ Finish
    \/ \E q \in Queries, f \in FilterSet, m \in 0..MaxResultsArg : Search(q, f, m)
    \/ Discard
    \/ \E cs \in Collections : BuildFromChunks(cs)
    \/ BuildResume
    \/ \E q \in Queries, f \in FilterArgs, m \in 0..MaxResultsArg :
           SearchCall(q, f, m)
    \/ SearchResume
    \/ DiscardResult

vars == <<instanceOf, advVars, vdbVars, appVars>>

Spec == Init /\ [][Next]_vars

\* The application (app.js): one database, of the class of
\* advancedVectorDB.js, built from the chunks the application has loaded
\* and searched through searchAndAnswer.
AppInit == Init /\ instanceOf = "advancedVectorDB.js"

AppNext ==
    \/ \E cs \in AppCollections : Initialize(cs)
    \/ ResumeKeyword
    \/ ResumeMetadata
    \/ ResumeImage
    \/ Finish
    \/ \E q \in AppQueries : SearchAndAnswer(q)
    \/ Discard
    \/ ClearAllData

AppSpec == AppInit /\ [][AppNext]_vars

\* ------------------------------------------------------------------------
\* The page: state.vectorDbReady over loads, syncs, saves and reloads
\* ------------------------------------------------------------------------

\* loadGlobalData (app.js) with global data or saved chunks at hand, or with
\* the sample data syncFromGoogleDocs falls back to: it calls
\* this.vectorDatabase.loadFromStorage, which this class does not have; the
\* TypeError is caught before the flags are assigned, and init goes on.
LoadGlobalData ==
    /\ instanceOf = "advancedVectorDB.js"
    /\ appPc = "loading"
    /\ synced = builds
    /\ appPc' = "loaded"
    /\ UNCHANGED <<vectorDbReady, gti_app_state, synced, chatVars, calls>>
    /\ UNCHANGED <<instanceOf, advVars, vdbVars>>

\* syncFromGoogleDocs (app.js) with chunks received:
\* "await this.vectorDatabase.initialize(result.chunks)", called by
\* loadGlobalData while the page loads and by the settings afterwards
SyncFromGoogleDocs(cs) ==
    /\ appPc \in {"loading", "ready"}
    /\ synced = builds
    /\ Len(cs) > 0
    /\ Initialize(cs)

\* syncFromGoogleDocs is resumed when initialize has settled: the flags are
\* set when it fulfilled, and the fallback is taken when it rejected.  Its
\* caller loadGlobalData then fails in loadFromStorage and returns.
SyncFromGoogleDocsResumes ==
    /\ instanceOf = "advancedVectorDB.js"
    /\ pc = "idle"
    /\ synced < builds
    /\ synced' = builds
    /\ vectorDbReady' = IF outcome = "ok" THEN TRUE ELSE vectorDbReady
    /\ appPc' = IF appPc = "loading" THEN "loaded" ELSE appPc
    /\ UNCHANGED <<gti_app_state, chatVars, calls>>
    /\ UNCHANGED <<instanceOf, advVars, vdbVars>>

\* loadSavedState (app.js), the last step of init:
\* "Object.assign(this.state, state)" when the item is there
LoadSavedState ==
    /\ instanceOf = "advancedVectorDB.js"
    /\ appPc = "loaded"
    /\ appPc' = "ready"
    /\ vectorDbReady' = IF gti_app_state.present
                        THEN gti_app_state.vectorDbReady
                        ELSE vectorDbReady
    /\ UNCHANGED <<gti_app_state, synced, chatVars, calls>>
    /\ UNCHANGED <<instanceOf, advVars, vdbVars>>

\* saveState (app.js), called when the model or the temperature is changed:
\* "localStorage.setItem('gti_app_state', JSON.stringify(this.state))"
SaveState ==
    /\ instanceOf = "advancedVectorDB.js"
    /\ appPc = "ready"
    /\ gti_app_state' = [present |-> TRUE, vectorDbReady |-> vectorDbReady]
    /\ UNCHANGED <<vectorDbReady, appPc, synced, chatVars, calls>>
    /\ UNCHANGED <<instanceOf, advVars, vdbVars>>

\* processDocument (app.js) with a processed file:
\* "await this.vectorDatabase.buildFromChunks(result.chunks)" is a TypeError
\* with this class; it is caught, and neither the flags nor the saved state
\* are written.
ProcessDocument ==
    /\ instanceOf = "advancedVectorDB.js"
    /\ appPc = "ready"
    /\ UNCHANGED vars

\* simulateGoogleDocsSync (settingsManager.js): the timer callback throws at
\* "this.app.vectorDatabase.buildFromChunks(chunks)", before the flags.
SimulateGoogleDocsSync ==
    /\ instanceOf = "advancedVectorDB.js"
    /\ appPc = "ready"
    /\ UNCHANGED vars

\* clearAllData, a click on the loaded page
PageClearAllData ==
    /\ appPc = "ready"
    /\ synced = builds
    /\ ClearAllData

\* searchAndAnswer (app.js) past "if (!this.state.vectorDbReady) throw"
Ask(query) ==
    /\ appPc = "ready"
    /\ vectorDbReady
    /\ SearchAndAnswer(query)

\* The page is loaded again: a new application object, a new database and
\* init from its start; localStorage is what stays.
Reload ==
    /\ instanceOf = "advancedVectorDB.js"
    /\ chunks' = <<>>
    /\ semanticIndex' = EmptyMap
    /\ keywordIndex' = EmptyMap
    /\ metadataIndex' = UnbuiltMetadataIndex
    /\ imageIndex' = EmptyMap
    /\ initialized' = FALSE
    /\ pc' = "idle"
    /\ outcome' = "none"
    /\ before' = [ chunks |-> <<>>, semanticIndex |-> EmptyMap,
                   keywordIndex |-> EmptyMap,
                   metadataIndex |-> UnbuiltMetadataIndex,
                   imageIndex |-> EmptyMap, initialized |-> FALSE ]
    /\ ret' = NoReturn
    /\ synced' = builds
    /\ vectorDbReady' = FALSE
    /\ appPc' = "loading"
    /\ UNCHANGED <<builds, gti_app_state, chatVars, calls>>
    /\ UNCHANGED <<instanceOf, vdbVars>>

PageNext ==
    \/ LoadGlobalData
    \/ \E cs \in AppCollections : SyncFromGoogleDocs(cs)
    \/ ResumeKeyword
    \/ ResumeMetadata
    \/ ResumeImage
    \/ Finish
    \/ SyncFromGoogleDocsResumes
    \/ LoadSavedState
    \/ SaveState
    \/ ProcessDocument
    \/ SimulateGoogleDocsSync
    \/ PageClearAllData
    \/ \E q \in AppQueries : Ask(q)
    \/ Discard
    \/ Reload

PageSpec == AppInit /\ [][PageNext]_vars

\* ------------------------------------------------------------------------
\* The chat: sendMessage, searchAndAnswer and the persisted history
\* ------------------------------------------------------------------------

\* sendMessage calls made in one behaviour
MaxSends == 26

\* sendMessage calls that return at the first check
MaxIgnored == 2

\* what the chat input holds, trimmed, when sendMessage is called
ChatInputs == {"", "battery order limit"}

\* "if (history.length > 50)"
HistoryLimit == 50

\* history.slice(-50)
LastOf(history, n) ==
    IF Len(history) > n
    THEN SubSeq(history, Len(history) - n + 1, Len(history))
    ELSE history

\* saveToHistory with the first items kept
saveToHistoryKeepingFirst(history, historyItem) ==
    LET pushed == Append(history, historyItem)
    IN  IF Len(pushed) > HistoryLimit
        THEN SubSeq(pushed, 1, HistoryLimit)
        ELSE pushed

\* saveToHistory (chatInterface.js): the history that is written to
\* gti_chat_history, given the one loadHistory returned
saveToHistory(history, historyItem) ==
    LET pushed == Append(history, historyItem)
    IN  IF Len(pushed) > HistoryLimit
        THEN LastOf(pushed, HistoryLimit)
        ELSE pushed

\* sendMessage that only looks at the query
AcceptsWhileProcessing(query) == query # ""

\* sendMessage goes on past "if (!query || this.isProcessing) return"
Accepts(query) == ~(query = "" \/ isProcessing)

\* sendMessage up to "await this.app.searchAndAnswer(query)": the flag is
\* set, the user message is added, and the request is started
SendMessage(query) ==
    /\ instanceOf = "advancedVectorDB.js"
    /\ exchanges.accepted < MaxSends
    /\ Accepts(query)
    /\ isProcessing' = TRUE
    /\ messages' = messages + 1
    /\ requests' = requests + 1
    /\ exchanges' = [exchanges EXCEPT !.accepted = @ + 1]
    /\ UNCHANGED <<result, gti_chat_history, pageVars, calls>>
    /\ UNCHANGED <<instanceOf, advVars, vdbVars>>

\* sendMessage that returns at its first check
SendMessageIgnored(query) ==
    /\ instanceOf = "advancedVectorDB.js"
    /\ exchanges.ignored < MaxIgnored
    /\ ~Accepts(query)
    /\ exchanges' = [exchanges EXCEPT !.ignored = @ + 1]
    /\ UNCHANGED <<isProcessing, requests, result, messages,
                   gti_chat_history, pageVars, calls>>
    /\ UNCHANGED <<instanceOf, advVars, vdbVars>>

\* searchAndAnswer (app.js) settles: with a response, after
\* "this.chatInterface.saveToHistory(query, response, searchResults)", or
\* with { success: false } from its catch.  It never rejects.
SearchAndAnswerSettles(success) ==
    /\ instanceOf = "advancedVectorDB.js"
    /\ requests > 0
    /\ result = "none"
    /\ result' = IF success THEN "success" ELSE "error"
    /\ IF success
       THEN /\ gti_chat_history' =
                   saveToHistory(gti_chat_history, exchanges.saved + 1)
            /\ exchanges' = [exchanges EXCEPT !.saved = @ + 1]
       ELSE UNCHANGED <<gti_chat_history, exchanges>>
    /\ UNCHANGED <<isProcessing, requests, messages, pageVars, calls>>
    /\ UNCHANGED <<instanceOf, advVars, vdbVars>>

\* sendMessage is resumed with the result: the answer is added and saved to
\* the history, or the error is added; when a statement of the try block
\* throws (processResponse of a response that is no string), the catch adds
\* its message instead.  finally: "this.isProcessing = false".
SendMessageResumes(threw) ==
    /\ instanceOf = "advancedVectorDB.js"
    /\ requests > 0
    /\ result # "none"
    /\ messages' = messages + 1
    /\ IF result = "success" /\ ~threw
       THEN /\ gti_chat_history' =
                   saveToHistory(gti_chat_history, exchanges.saved + 1)
            /\ exchanges' = [exchanges EXCEPT !.saved = @ + 1,
                                              !.answered = @ + 1]
       ELSE UNCHANGED <<gti_chat_history, exchanges>>
    /\ isProcessing' = FALSE
    /\ requests' = requests - 1
    /\ result' = "none"
    /\ UNCHANGED <<pageVars, calls>>
    /\ UNCHANGED <<instanceOf, advVars, vdbVars>>

ChatNext ==
    \/ \E query \in ChatInputs : SendMessage(query)
    \/ \E query \in ChatInputs : SendMessageIgnored(query)
    \/ \E success \in BOOLEAN : SearchAndAnswerSettles(success)
    \/ \E threw \in BOOLEAN : SendMessageResumes(threw)

ChatSpec == AppInit /\ [][ChatNext]_vars

\* ------------------------------------------------------------------------
\* GlobalConfig.fetchWithRetry
\* ------------------------------------------------------------------------

\* this.retryAttempts
retryAttempts == 3

\* what fetch fulfils with: a response, whatever its status
Responses == {"ok", "httpError"}

\* a catch block that allows one attempt more
ShouldRetryOnceMore(attempt) == attempt <= retryAttempts

\* "if (attempt < this.retryAttempts)"
ShouldRetry(attempt) == attempt < retryAttempts

\* fetchWithRetry(url, options), attempt = 1: "await fetch(url, options)"
FetchWithRetry(c) ==
    /\ instanceOf = "advancedVectorDB.js"
    /\ calls[c].phase = "none"
    /\ calls' = [calls EXCEPT ![c] =
                    [phase |-> "fetching", attempt |-> 1, fetched |-> <<>>]]
    /\ UNCHANGED <<pageVars, chatVars>>
    /\ UNCHANGED <<instanceOf, advVars, vdbVars>>

\* fetch fulfils: "return response"
FetchFulfils(c, response) ==
    /\ instanceOf = "advancedVectorDB.js"
    /\ calls[c].phase = "fetching"
    /\ calls' = [calls EXCEPT ![c].phase = "returned",
                              ![c].fetched = Append(@, response)]
    /\ UNCHANGED <<pageVars, chatVars>>
    /\ UNCHANGED <<instanceOf, advVars, vdbVars>>

\* fetch rejects: the catch block waits for the timer when an attempt is
\* left, and throws the error otherwise
FetchRejects(c) ==
    /\ instanceOf = "advancedVectorDB.js"
    /\ calls[c].phase = "fetching"
    /\ calls' = [calls EXCEPT ![c].phase = IF ShouldRetry(calls[c].attempt)
                                           THEN "waiting" ELSE "thrown",
                              ![c].fetched = Append(@, "threw")]
    /\ UNCHANGED <<pageVars, chatVars>>
    /\ UNCHANGED <<instanceOf, advVars, vdbVars>>

\* the timer of retryDelay * attempt fires:
\* "return this.fetchWithRetry(url, options, attempt + 1)"
TimerFires(c) ==
    /\ instanceOf = "advancedVectorDB.js"
    /\ calls[c].phase = "waiting"
    /\ calls' = [calls EXCEPT ![c].phase = "fetching",
                              ![c].attempt = @ + 1]
    /\ UNCHANGED <<pageVars, chatVars>>
    /\ UNCHANGED <<instanceOf, advVars, vdbVars>>

\* the fetch of call c settles
FetchSettles(c) ==
    \/ \E response \in Responses : FetchFulfils(c, response)
    \/ FetchRejects(c)

FetchNext ==
    \/ \E c \in Calls : FetchWithRetry(c)
    \/ \E c \in Calls : \E response \in Responses : FetchFulfils(c, response)
    \/ \E c \in Calls : FetchRejects(c)
    \/ \E c \in Calls : TimerFires(c)

\* every fetch settles and every timer fires
FetchSpec ==
    /\ AppInit
    /\ [][FetchNext]_vars
    /\ \A c \in Calls : WF_vars(FetchSettles(c)) /\ WF_vars(TimerFires(c))

\* ------------------------------------------------------------------------
\* Properties
\* ------------------------------------------------------------------------

BuildCompleted == pc = "idle" /\ outcome = "ok"

IdsWithImages(cs) == {cs[i].chunk_id : i \in {j \in DOMAIN cs : HasImageList(cs[j])}}

MetadataIndexIds ==
    UNION { Range(metadataIndex[d][v]) :
              <<d, v>> \in UNION { {d} \X DOMAIN metadataIndex[d] :
                                     d \in {"states", "sections", "topics", "hasImages"} } }

\* C1: after a completed build, each of the four indices holds entries for
\* exactly the chunk ids of the collection of that build (the image index:
\* of its chunks that have images); nothing of an earlier build survives.
C1_IndicesHoldLastBuildOnly ==
    BuildCompleted =>
        /\ DOMAIN semanticIndex = ChunkIds(chunks)
        /\ DOMAIN keywordIndex = ChunkIds(chunks)
        /\ MetadataIndexIds = ChunkIds(chunks)
        /\ DOMAIN imageIndex = IdsWithImages(chunks)

\* a search of the vectorDatabase.js instance has returned or thrown
VdbSearchSettled == vdbRet.op = "search"

\* C2: a search on an instance on which no build has completed fails with
\* a not-ready error; it never returns a result list.
C2_SearchBeforeBuildFails ==
    /\ (ret.op = "search" /\ ~initialized)
           => (ret.threw /\ ret.error = "Vector database not initialized")
    /\ (VdbSearchSettled /\ ~isReady) => vdbRet.threw

RebuildInProgress ==
    pc \in {"keyword", "metadata", "image"} /\ before.initialized

\* C3: a search that returns while a rebuild of a built index still has
\* indices to rebuild works on the state the rebuild started from; it never
\* scores the new collection against old or partly built indices.
C3_NoMixedStateDuringRebuild ==
    (ret.op = "search" /\ ~ret.threw /\ RebuildInProgress) => Fields = before

\* C4: when a build has thrown, the chunk collection, the four indices and
\* the readiness flag are what they were when that build was started.
C4_FailedBuildLeavesOldState ==
    outcome = "threw" => Fields = before

\* C5: a build that completed was given well-formed chunk records only.
C5_MalformedRecordFailsBuild ==
    BuildCompleted => \A i \in DOMAIN chunks : WellFormed(chunks[i])

\* the latest build has completed and no build call was made between the
\* call and the return of the search held in vdbRet
VdbSearchedBuilt ==
    /\ VdbSearchSettled
    /\ vdbPc = "idle" /\ vdbOutcome = "ok"
    /\ vdbRet.calledAt = [builds |-> vdbBuilds, pc |-> "idle"]

\* C6: on a built index that holds at least one chunk, a search for at
\* least one result returns a non-empty list, whatever the filter object:
\* when the narrowing leaves nothing the full chunk set is scored.
C6_SearchOnBuiltIndexNeverEmpty ==
    /\ (ret.op = "search" /\ BuildCompleted /\ Len(chunks) > 0
          /\ ret.maxResults >= 1)
           => (~ret.threw /\ Len(ret.results) > 0)
    /\ (VdbSearchedBuilt /\ Len(vdbChunks) > 0 /\ vdbRet.limit >= 1)
           => (~vdbRet.threw /\ Len(vdbRet.results) > 0)

StateValues == {OH, MD, ZZ}

\* C7: once builds have been made and none is running, the candidates of a
\* state filter {states: [s]} are ids of the current chunk collection, and
\* unless there are none (the fallback case) each candidate chunk carries s.
C7_StateCandidatesAreCurrentAndTagged ==
    (pc = "idle" /\ initialized) =>
        \A s \in StateValues :
            LET cand == Range(applyCandidateFilters(MakeFilters(<<s>>, <<>>, <<>>, FALSE)))
            IN  /\ cand \subseteq ChunkIds(chunks)
                /\ \A i \in DOMAIN chunks :
                       chunks[i].chunk_id \in cand =>
                           s \in Range(Tags(chunks[i], "states"))

SearchReturned == ret.op = "search" /\ ~ret.threw

\* the candidate ids of the search held in ret
CandidatesOfRet ==
    LET filtered == applyCandidateFilters(ret.filters)
    IN  IF Len(filtered) = 0 THEN [i \in 1..Len(chunks) |-> chunks[i].chunk_id]
                             ELSE filtered

\* C8: search returns exactly min(maxResults, number of candidates)
\* results, in non-increasing order of fused score, none of them beaten by
\* an omitted candidate, each with its chunk and its component scores.
C8_TopResultsByScore ==
    SearchReturned =>
        LET rs == ret.results
        IN  /\ Len(rs) <= ret.maxResults
            /\ Len(rs) = Min(ret.maxResults, ret.totalCandidates)
            /\ \A i, j \in DOMAIN rs : i < j => rs[i].score >= rs[j].score
            /\ \A k \in DOMAIN CandidatesOfRet :
                   LET id == CandidatesOfRet[k]
                   IN  (id \in ChunkIds(chunks)
                        /\ \A i \in DOMAIN rs : rs[i].chunk.chunk_id # id)
                       => \A i \in DOMAIN rs :
                              ScoreCandidate(ret.query, ret.filters, id).score
                                 <= rs[i].score
            /\ \A i \in DOMAIN rs :
                   rs[i].score = ( rs[i].scores.semantic * searchConfig.semanticWeight
                                 + rs[i].scores.keyword  * searchConfig.keywordWeight
                                 + rs[i].scores.metadata * searchConfig.metadataWeight
                                 + rs[i].scores.image    * searchConfig.imageBoost ) \div SCALE

\* C9: results with equal fused scores are in increasing order of chunk id.
C9_TiesByLowerChunkId ==
    SearchReturned =>
        \A i, j \in DOMAIN ret.results :
            (i < j /\ ret.results[i].score = ret.results[j].score)
                => ret.results[i].chunk.chunk_id < ret.results[j].chunk.chunk_id

\* C10: a step of a search leaves every field of the instance as it was,
\* and the same search made again on the instance, no build step having
\* run since it was called, returns what it returned.
C10_SearchIsRepeatable ==
    /\ [](ret.op = "search" => search(ret.query, ret.filters, ret.maxResults) = ret)
    /\ []((vdbRet.op = "search" /\ vdbRet.calledAt = CalledAt)
             => vdbSearch(vdbRet.query, vdbRet.filters, vdbRet.limit) = vdbRet)
    /\ [][ret'.op = "search" => Fields' = Fields]_vars
    /\ [][(vdbCall' # vdbCall \/ (vdbRet'.op = "search" /\ vdbRet' # vdbRet))
             => VdbFields' = VdbFields]_vars

C10_Witness ==
    SearchReturned /\ pc = "idle" /\ builds > 1 /\ Len(ret.results) > 1

\* a JavaScript number that is neither NaN, undefined, infinite nor negative
IsScore(x) == x \in Nat /\ x < Infinity

\* C11: every fused score and every component score of a returned result is
\* a finite number that is not negative, zero vectors, images without
\* keywords and single-chunk collections included.
C11_ScoresAreFiniteNonNegative ==
    /\ SearchReturned =>
           \A i \in DOMAIN ret.results :
               LET r == ret.results[i]
               IN  /\ IsScore(r.score)
                   /\ IsScore(r.scores.semantic)
                   /\ IsScore(r.scores.keyword)
                   /\ IsScore(r.scores.metadata)
                   /\ IsScore(r.scores.image)
    /\ (VdbSearchSettled /\ ~vdbRet.threw) =>
           \A i \in DOMAIN vdbRet.results :
               LET r == vdbRet.results[i]
               IN  /\ IsScore(r.similarity)
                   /\ IsScore(r.scores.semantic)
                   /\ IsScore(r.scores.keyword)
                   /\ IsScore(r.scores.metadata)

\* a search without terms has scored the single chunk that has no terms and
\* whose image has no keywords
C11_Witness ==
    /\ SearchReturned
    /\ extractTerms(ret.query) = <<>>
    /\ chunks = <<chunkBlank>>
    /\ 7 \in DOMAIN imageIndex /\ imageIndex[7].imageKeywords = <<>>
    /\ Len(ret.results) = 1 /\ ret.results[1].chunk = chunkBlank

\* the latest build of the vectorDatabase.js instance has completed
VdbBuildCompleted == vdbPc = "idle" /\ vdbOutcome = "ok"

\* C12: after a completed build with an empty collection the index is
\* ready and reports no chunk and no indexed vector, and a search returns
\* an empty list without an error.
C12_EmptyBuildYieldsEmptyIndex ==
    /\ (BuildCompleted /\ chunks = <<>>) =>
           /\ getStats.initialized
           /\ getStats.totalChunks = 0
           /\ getStats.semanticVectors = 0
           /\ ret.op = "search" => (~ret.threw /\ ret.results = <<>>)
    /\ (VdbBuildCompleted /\ vdbChunks = <<>>) =>
           /\ vdbGetStats.isReady
           /\ vdbGetStats.totalChunks = 0
           /\ Len(vdbSemanticIndex) = 0
           /\ VdbSearchedBuilt => (~vdbRet.threw /\ vdbRet.results = <<>>)

\* tokenize (vectorDatabase.js) of each text, computed once
tokenizeOfText == [text \in Texts |-> tokenize(text)]

\* the terms of the texts, and the set of terms of each text, computed once
AllTerms == UNION {Range(extractTermsOf[text]) : text \in Texts}
TermSetOf == [text \in Texts |-> Range(extractTermsOf[text])]

\* the words of the texts, and the set of words of each text, computed once
AllWords == UNION {Range(tokenizeOfText[text]) : text \in Texts}
WordSetOf == [text \in Texts |-> Range(tokenizeOfText[text])]

\* the terms extractTerms finds in every chunk of this.chunks
TermsOfEveryChunk ==
    {term \in AllTerms : \A i \in DOMAIN chunks : term \in TermSetOf[chunks[i].text]}

\* the words tokenize finds in every chunk of this.chunks (vectorDatabase.js)
WordsOfEveryChunk ==
    {word \in AllWords : \A i \in DOMAIN vdbChunks : word \in WordSetOf[vdbChunks[i].text]}

TokensClean(tokens) ==
    \A i \in DOMAIN tokens : Len(tokens[i]) > 2 /\ tokens[i] \notin stopWords

\* the texts the advancedVectorDB.js instance has tokenized: the texts of
\* its semantic index and the query of its latest search
TextsTokenized ==
    {semanticIndex[id].text : id \in DOMAIN semanticIndex}
        \cup (IF ret.op = "search" THEN {ret.query} ELSE {})

\* the texts the vectorDatabase.js instance has tokenized: the texts of the
\* chunks of its keyword index and the query of its latest search
VdbTextsTokenized ==
    (IF VdbBuildCompleted THEN {vdbChunks[i].text : i \in DOMAIN vdbChunks} ELSE {})
        \cup (IF VdbSearchSettled /\ isReady THEN {vdbRet.query} ELSE {})

\* C14: the tokens of every tokenized text hold no token of length 2 or
\* less and no stop word, and tokenizing the tokens joined by spaces gives
\* the same tokens again.
C14_TokensAreCleanAndStable ==
    /\ \A text \in TextsTokenized :
           LET tokens == extractTermsOf[text]
           IN  TokensClean(tokens) /\ extractTerms(Join(tokens, <<" ">>)) = tokens
    /\ \A text \in VdbTextsTokenized :
           LET tokens == tokenizeOfText[text]
           IN  TokensClean(tokens) /\ tokenize(Join(tokens, <<" ">>)) = tokens


\* ------------------------------------------------------------------------
\* Query intelligence and the search it drives
\* ------------------------------------------------------------------------

\* searchAndAnswer has returned from the search it made for the query
Answered(query) == ret.op = "searchAndAnswer" /\ ret.query = query

\* the first build of the instance has completed, from the sample chunks
BuiltFromSampleChunks ==
    /\ pc = "idle" /\ outcome = "ok" /\ builds = 1
    /\ chunks = SampleChunks

\* C15: with the index built from the three sample chunks (OH/RISE,
\* MD/REGULAR, NJ/REGULAR+RISE), the question "What are the order limits for
\* Ohio?" is analysed with state OH, and the search made with the filters
\* generated from that analysis returns the OH/RISE chunk first.
C15_OhioQuestionRanksOhioChunkFirst ==
    (BuiltFromSampleChunks /\ Answered(OhioQuestion)) =>
        /\ qiEnhanceQueryOf[OhioQuestion].state = OH
        /\ ret.filters = generateSearchFilters(qiEnhanceQueryOf[OhioQuestion])
        /\ ~ret.threw
        /\ ret.results # <<>>
        /\ ret.results[1].chunk = sampleChunk0
        /\ ret.results[1].chunk.metadata.states = <<OH>>
        /\ ret.results[1].chunk.metadata.sections = <<RISE>>

C15_Witness ==
    /\ BuiltFromSampleChunks
    /\ Answered(OhioQuestion)
    /\ ret.filters.states = <<OH>>
    /\ Len(ret.results) = 1
    /\ ret.results[1].chunk = sampleChunk0


\* no text of stateMappings occurs in the query and no pattern of
\* orderTypePatterns or topicPatterns matches it
NothingMatches(query) ==
    LET queryLower == toLowerCase(query)
    IN  /\ \A k \in DOMAIN stateMappings :
               ~Includes(queryLower, stateMappings[k].text)
        /\ \A k \in DOMAIN orderTypePatterns :
               \A p \in DOMAIN orderTypePatterns[k].patterns :
                   ~test(orderTypePatterns[k].patterns[p], queryLower)
        /\ \A k \in DOMAIN topicPatterns :
               \A p \in DOMAIN topicPatterns[k].patterns :
                   ~test(topicPatterns[k].patterns[p], queryLower)

\* NothingMatches of each question, computed once
NothingMatchesOf == [query \in AppQueries |-> NothingMatches(query)]

\* the results are in descending order of score
ByDescendingScore(results) ==
    \A i, j \in DOMAIN results : i < j => results[i].score >= results[j].score

\* C16: for a query that no state name or abbreviation, order type pattern
\* or topic pattern matches, enhanceQuery returns no state, no order type,
\* no topic and confidence 0.5, the generated filters have no state, section
\* or topic, and the search on a built index with chunks returns a ranked
\* list and does not throw.
C16_UnmatchedQueryStillSearches ==
    \A query \in AppQueries :
        NothingMatchesOf[query] =>
            LET analysis == qiEnhanceQueryOf[query]
                filters  == generateSearchFilters(analysis)
            IN  /\ analysis.state = NullString
                /\ analysis.orderType = NullString
                /\ analysis.topics = <<>>
                /\ 2 * analysis.confidence = SCALE
                /\ ActiveDimensions(filters) = {}
                /\ (BuildCompleted /\ chunks # <<>> /\ Answered(query)) =>
                       /\ ret.filters = filters
                       /\ ~ret.threw
                       /\ ret.results # <<>>
                       /\ ByDescendingScore(ret.results)

C16_Witness ==
    /\ BuildCompleted
    /\ chunks = SampleChunks
    /\ Answered(<<"h","e","l","l","o"," ","t","h","e","r","e">>)
    /\ NothingMatchesOf[ret.query]
    /\ ~ret.threw
    /\ Len(ret.results) = 3
    /\ ret.totalCandidates = 3


\* the state, the order type and the number of topics enhanceQuery found
\* in the query searchAndAnswer has searched for
Found ==
    LET analysis == qiEnhanceQueryOf[ret.query]
    IN  [ state     |-> analysis.state # NullString,
          orderType |-> analysis.orderType # NullString,
          topics    |-> Len(analysis.topics) ]

\* 0.5 + 0.2*[state found] + 0.2*[order type found]
\*     + 0.1*min(number of topics found, 3), in SCALE units
ConfidenceSum ==
    SCALE \div 2 + (IF Found.state THEN SCALE \div 5 ELSE 0)
                 + (IF Found.orderType THEN SCALE \div 5 ELSE 0)
                 + (SCALE \div 10) * Min(Found.topics, 3)

ConfidenceAsStated ==
    LET confidence == qiEnhanceQueryOf[ret.query].confidence
    IN  /\ confidence = Min(SCALE, ConfidenceSum)
        /\ SCALE \div 2 <= confidence /\ confidence <= SCALE

\* C17 as stated: the confidence is min(1, 0.5 + 0.2*[state found]
\* + 0.2*[order type found] + 0.1*min(topics found, 3)), lies within
\* [0.5, 1], and the sum reaches the clamp only when state, order type and
\* at least three topics are all found.
C17_ClampOnlyWithThreeTopics ==
    ret.op = "searchAndAnswer" =>
        /\ ConfidenceAsStated
        /\ ConfidenceSum > SCALE =>
               (Found.state /\ Found.orderType /\ Found.topics >= 3)

\* C17, amended: the confidence is min(1, 0.5 + 0.2*[state found]
\* + 0.2*[order type found] + 0.1*min(topics found, 3)), lies within
\* [0.5, 1], and the sum exceeds 1, so that the clamp lowers it, only when
\* state and order type are both found together with at least two topics.
C17_ClampOnlyWithStateOrderTypeAndTwoTopics ==
    ret.op = "searchAndAnswer" =>
        /\ ConfidenceAsStated
        /\ ConfidenceSum > SCALE =>
               (Found.state /\ Found.orderType /\ Found.topics >= 2)

\* a query with state, order type and two topics: the sum is 1.1
C17_Witness ==
    /\ ret.op = "searchAndAnswer"
    /\ Found = [state |-> TRUE, orderType |-> TRUE, topics |-> 2]
    /\ ConfidenceSum > SCALE
    /\ qiEnhanceQueryOf[ret.query].confidence = SCALE


\* C18: the keywords of the query analysis are the first 10 terms that
\* extractTerms, the tokenization of the indexer, finds in the query, in
\* their order, and the two never disagree on whether a word is a term.
C18_KeywordsAreFirstTermsOfIndexer ==
    ret.op = "searchAndAnswer" =>
        LET keywords == qiEnhanceQueryOf[ret.query].keywords
            terms    == extractTermsOf[ret.query]
            words    == SplitWhitespace(ReplaceNonWord(toLowerCase(ret.query)))
        IN  /\ keywords = SubSeq(terms, 1, Min(10, Len(terms)))
            /\ \A i \in DOMAIN words :
                   KeepTerm(words[i])
                       <=> (Len(words[i]) > 2 /\ words[i] \notin qiStopWords)


\* C19: the chunk collection, the indices and the readiness flag of the
\* database change only in the steps of its own build, whatever operations
\* the application performs: the collection it holds stays the one passed
\* to its last build.
C19_OnlyBuildsChangeTheDatabase ==
    [][Fields' # Fields => (builds' # builds \/ pc # "idle")]_vars


\* ------------------------------------------------------------------------
\* Candidate narrowing
\* ------------------------------------------------------------------------

\* filter objects: every combination of these lists of states, sections
\* and topics, with and without hasImages
CandidateFilters ==
    { MakeFilters(states, sections, topics, hasImages) :
        states    \in {<<>>, <<OH>>, <<ZZ>>, <<MD, OH>>},
        sections  \in {<<>>, <<REGULAR>>, <<RISE>>},
        topics    \in {<<>>, <<BATTERIES>>, <<ORDER_LIMITS, BATTERIES>>},
        hasImages \in BOOLEAN }

\* the ids of the chunks of the collection that carry, in every dimension
\* whose list is not empty, one of the listed values, and that are flagged
\* as having images or have some when hasImages is set
Satisfying(filters) ==
    { chunks[i].chunk_id : i \in
        { j \in DOMAIN chunks :
            /\ \A d \in ActiveDimensions(filters) :
                   Range(Tags(chunks[j], d)) \cap Range(filters[d]) # {}
            /\ filters.hasImages =>
                   \/ "has_images" \notin chunks[j].missing
                          /\ chunks[j].metadata.has_images
                   \/ "images" \notin chunks[j].missing
                          /\ Len(chunks[j].images) > 0 } }

\* the list holds exactly the ids of the set, each once
ListsExactly(ids, S) == Range(ids) = S /\ Len(ids) = Cardinality(S)

\* The filter objects the candidates are compared for.  The candidates are
\* a function of the metadata index alone, and every state of the index
\* occurs with no search result held: there they are compared for every
\* filter object, and where a search result is held, for the filters of
\* that search.
FiltersOfInterest ==
    IF ret = NoReturn THEN CandidateFilters \cup FilterSet ELSE {ret.filters}

\* C20 as stated: applyCandidateFilters returns exactly the ids of the
\* indexed chunks that satisfy every active dimension of the filters; a
\* dimension that is absent or empty imposes no constraint, and an active
\* dimension that matches no chunk makes the result empty.
C20_CandidatesSatisfyEveryActiveDimension ==
    BuildCompleted =>
        \A filters \in FiltersOfInterest :
            ListsExactly(applyCandidateFilters(filters), Satisfying(filters))

\* C20, amended: when at least one dimension is active,
\* applyCandidateFilters returns exactly the ids of the indexed chunks that
\* satisfy every active dimension (absent or empty dimensions impose no
\* constraint; an active dimension that matches no chunk makes the result
\* empty); when no dimension is active it returns the empty list.
C20_CandidatesOfActiveFilters ==
    BuildCompleted =>
        \A filters \in FiltersOfInterest :
            IF ActiveDimensions(filters) = {} /\ ~filters.hasImages
            THEN applyCandidateFilters(filters) = <<>>
            ELSE ListsExactly(applyCandidateFilters(filters), Satisfying(filters))

\* a search whose state filter matches a chunk and whose section filter
\* matches another one: no candidate is left
C20_Witness ==
    /\ BuildCompleted
    /\ SearchReturned
    /\ chunks = <<chunkOH1, chunkMD>>
    /\ ret.filters = MakeFilters(<<OH>>, <<REGULAR>>, <<>>, FALSE)
    /\ DimensionCandidates(metadataIndex.states, ret.filters.states) = <<1>>
    /\ DimensionCandidates(metadataIndex.sections, ret.filters.sections) = <<3>>
    /\ applyCandidateFilters(ret.filters) = <<>>
    /\ applyCandidateFilters(MakeFilters(<<MD, OH>>, <<>>, <<>>, FALSE)) = <<3, 1>>


\* ------------------------------------------------------------------------
\* Component scores and fusion
\* ------------------------------------------------------------------------

\* the dimensions among states, sections and topics the filters list a
\* value for
Active(filters) ==
    {d \in {"states", "sections", "topics"} : filters[d] # <<>>}

\* the active dimensions of which the chunk carries a listed value
Matched(filters, chunk) ==
    {d \in Active(filters) :
        \E i \in DOMAIN filters[d] :
            /\ d \notin chunk.missing
            /\ \E j \in DOMAIN chunk.metadata[d] : chunk.metadata[d][j] = filters[d][i]}

\* x is the fraction matched / active of the filters and the chunk, or one
\* half when no dimension is active
IsMatchedFraction(x, filters, chunk) ==
    IF Active(filters) = {}
    THEN 2 * x = SCALE
    ELSE x = (Cardinality(Matched(filters, chunk)) * SCALE)
                 \div Cardinality(Active(filters))

\* C21: the metadata score of a chunk under a filter object is the number
\* of active dimensions among states, sections and topics the chunk matches
\* divided by the number of active ones, and 0.5 when none of the three is
\* active, hasImages set or not: for every result of a search, and for every
\* chunk record with metadata of the collection and every filter object.
C21_MetadataScoreIsMatchedFraction ==
    /\ SearchReturned =>
           \A i \in DOMAIN ret.results :
               IsMatchedFraction(ret.results[i].scores.metadata,
                                 ret.filters, ret.results[i].chunk)
    /\ ret = NoReturn =>
           \A i \in DOMAIN chunks : \A filters \in CandidateFilters \cup FilterSet :
               "metadata" \notin chunks[i].missing =>
                   IsMatchedFraction(calculateMetadataScore(filters, chunks[i]),
                                     filters, chunks[i])

\* a search with two active dimensions has scored a chunk that matches one
\* of them, and the hasImages filter alone leaves the score at one half
C21_Witness ==
    /\ SearchReturned
    /\ chunks = <<chunkOH1, chunkMD>>
    /\ ret.filters = MakeFilters(<<OH>>, <<REGULAR>>, <<>>, FALSE)
    /\ \E i \in DOMAIN ret.results :
           /\ ret.results[i].chunk = chunkOH1
           /\ Matched(ret.filters, chunkOH1) = {"states"}
           /\ 2 * ret.results[i].scores.metadata = SCALE
    /\ 2 * calculateMetadataScore(MakeFilters(<<>>, <<>>, <<>>, TRUE), chunkMD) = SCALE


\* 0.4 semantic + 0.3 keyword + 0.3 metadata + 0.1 image, in SCALE units
WeightedSum(scores) ==
    ( 4 * 100 * scores.semantic + 3 * 100 * scores.keyword
    + 3 * 100 * scores.metadata + 100 * scores.image ) \div SCALE

\* every component score of a is at least that of b
Dominates(a, b) ==
    /\ a.semantic >= b.semantic /\ a.keyword >= b.keyword
    /\ a.metadata >= b.metadata /\ a.image >= b.image

\* C22: the fused score of every result of the weighted-sum search is
\* 0.4 semantic + 0.3 keyword + 0.3 metadata + 0.1 image of the component
\* scores reported in that result, and a result whose components are all at
\* least those of another result of the search has at least its fused score.
C22_FusedScoreIsWeightedSum ==
    SearchReturned =>
        /\ \A i \in DOMAIN ret.results :
               ret.results[i].score = WeightedSum(ret.results[i].scores)
        /\ \A i, j \in DOMAIN ret.results :
               Dominates(ret.results[i].scores, ret.results[j].scores)
                   => ret.results[i].score >= ret.results[j].score

\* a result with four positive component scores that differ, ranked before
\* a result it dominates
C22_Witness ==
    /\ SearchReturned
    /\ Len(ret.results) = 2
    /\ LET a == ret.results[1].scores
           b == ret.results[2].scores
       IN  /\ a.semantic > 0 /\ a.keyword > 0 /\ a.metadata > 0 /\ a.image > 0
           /\ a.semantic # a.keyword
           /\ Dominates(a, b) /\ a # b
           /\ ret.results[1].score > ret.results[2].score


\* C23: after a completed build, the image score of a chunk of the indexed
\* collection that has no images is 0 for every query, whatever earlier
\* builds indexed under its id.
C23_NoImagesNoImageScore ==
    BuildCompleted =>
        \A i \in DOMAIN chunks : \A query \in Queries :
            ~HasImageList(chunks[i])
                => calculateImageScore(query, chunks[i].chunk_id) = 0


\* ------------------------------------------------------------------------
\* State extraction
\* ------------------------------------------------------------------------

\* the aliases of the state dictionary that occur in the lower-cased query
AliasHits(queryLower) ==
    SelectSeq(stateMappings, LAMBDA e : Includes(queryLower, e.text))

\* the query mentions a state: a name or a code of the dictionary stands in
\* it as a word of its own
MentionsState(queryLower) ==
    \E k \in DOMAIN stateMappings :
        test(Pattern(TRUE, stateMappings[k].text, "none", <<>>, TRUE), queryLower)

\* the state is what the claim says of the query
StateAsStated(state, query) ==
    LET queryLower == toLowerCase(query)
        hits       == AliasHits(queryLower)
        codes      == SelectSeq(StateMatches(toUpperCase(queryLower)),
                                LAMBDA match : match \in Range(validStates))
    IN  /\ hits # <<>> => state = hits[1].abbr
        /\ (hits = <<>> /\ codes # <<>>) => state = codes[1]
        /\ (hits = <<>> /\ codes = <<>>) => state = NullString
        /\ ~MentionsState(queryLower) => state = NullString

\* the analysis of each question says of its state what the claim says
StateAsStatedOf ==
    [query \in AppQueries |-> StateAsStated(qiEnhanceQueryOf[query].state, query)]

\* C24: the analysis of a question yields at most one state: the code of the
\* first alias of the state dictionary that hits the query, else the first
\* stand-alone two-letter code of the valid set, else null; and null for a
\* query that mentions no state by name or code.
C24_StateIsFirstAliasElseCodeElseNull ==
    \A query \in AppQueries :
        Answered(query) =>
            /\ StateAsStatedOf[query]
            /\ ret.filters.states =
                   (IF qiEnhanceQueryOf[query].state = NullString
                    THEN <<>> ELSE <<qiEnhanceQueryOf[query].state>>)


\* ------------------------------------------------------------------------
\* Reciprocal rank fusion
\* ------------------------------------------------------------------------

\* 1 / (60 + rank) for the rank, counted from 1, of the chunk in the ranking,
\* and 0 for a ranking that does not contain the chunk
Contribution(ranking, chunk) ==
    LET places == {p \in DOMAIN ranking : ranking[p].chunk = chunk}
    IN  IF places = {} THEN 0
        ELSE (SCALE * SCALE * 10)
                 \div (60 + CHOOSE p \in places : \A q \in places : p <= q)

\* C25: when a reciprocal-rank-fusion search returns, the fused score of the
\* chunk of each result is the sum of 1 / (60 + rank) over the semantic,
\* keyword and metadata rankings of that search that contain the chunk, and
\* the results are in non-increasing order of that score.
C25_FusedScoreIsReciprocalRankSum ==
    [][ (vdbCall.pending /\ vdbRet'.op = "search" /\ ~vdbRet'.threw) =>
            LET semanticResults == vdbCall.semanticResults
                keywordResults  == keywordSearch(vdbCall.query, vdbCall.limit * 2)
                metadataResults == metadataSearch(vdbCall.enhancedQuery,
                                                  vdbCall.limit * 2).value
                results         == vdbRet'.results
            IN  /\ \A i \in DOMAIN results :
                       results[i].similarity =
                           Contribution(semanticResults, results[i].chunk)
                         + Contribution(keywordResults, results[i].chunk)
                         + Contribution(metadataResults, results[i].chunk)
                /\ \A i, j \in DOMAIN results :
                       i < j => results[i].similarity >= results[j].similarity
      ]_vars


\* ------------------------------------------------------------------------
\* The readiness flag
\* ------------------------------------------------------------------------

NotInitialized == "Vector database not initialized"

\* C26: whenever state.vectorDbReady is true the database has completed a
\* build and is ready, so that a searchAndAnswer past its readiness check
\* never reaches a database that is not initialized.
C26_ReadyFlagMeansBuilt ==
    /\ vectorDbReady => initialized
    /\ (ret # NoReturn /\ ret.op = "searchAndAnswer")
           => ~(ret.threw /\ ret.error = NotInitialized)


\* ------------------------------------------------------------------------
\* The chat
\* ------------------------------------------------------------------------

\* C27: at most one searchAndAnswer request is in flight; isProcessing is
\* true exactly while one is, so it is false again once an accepted
\* sendMessage has ended, whatever its request did; and a sendMessage issued
\* while a request is processed is not accepted, adds no message and starts
\* no request.
C27_OneRequestInFlight ==
    /\ [](requests <= 1 /\ (isProcessing <=> requests = 1))
    /\ [][ isProcessing =>
             /\ exchanges'.accepted = exchanges.accepted
             /\ requests' <= requests
             /\ exchanges'.ignored # exchanges.ignored =>
                    (messages' = messages /\ requests' = requests)
             /\ messages' # messages => (~isProcessing' /\ requests' = 0)
         ]_vars

\* a sendMessage was issued while a request was processed, and requests
\* have ended with an answer and otherwise
C27_Witness ==
    /\ isProcessing
    /\ requests = 1
    /\ result = "error"
    /\ exchanges.ignored = 1
    /\ exchanges.accepted = 3
    /\ exchanges.answered = 1
    /\ messages = 5

\* C28: after n successfully answered sendMessage exchanges from an empty
\* history, gti_chat_history holds min(n, 50) entries.
C28_OneEntryPerAnsweredQuery ==
    ~isProcessing =>
        Len(gti_chat_history) = Min(exchanges.answered, HistoryLimit)

\* C29: after any sequence of saveToHistory calls the persisted history
\* holds at most 50 entries, and they are the last ones saved, in the order
\* they were saved.
C29_HistoryIsLastFiftySaved ==
    /\ Len(gti_chat_history) <= HistoryLimit
    /\ Len(gti_chat_history) = Min(exchanges.saved, HistoryLimit)
    /\ \A i \in DOMAIN gti_chat_history :
           gti_chat_history[i]
               = exchanges.saved - Len(gti_chat_history) + i

\* more than 50 entries were saved: the first ones are gone
C29_Witness ==
    /\ exchanges.saved > HistoryLimit
    /\ Len(gti_chat_history) = HistoryLimit
    /\ gti_chat_history[1] = exchanges.saved - HistoryLimit + 1
    /\ gti_chat_history[HistoryLimit] = exchanges.saved


\* ------------------------------------------------------------------------
\* fetchWithRetry
\* ------------------------------------------------------------------------

Ended(c) == calls[c].phase \in {"returned", "thrown"}

\* the attempts before the last one threw
EarlierThrew(c) ==
    \A i \in 1..(Len(calls[c].fetched) - 1) : calls[c].fetched[i] = "threw"

\* C30: fetchWithRetry ends after at most retryAttempts (3) fetch attempts;
\* it returns the first response it obtains, an HTTP error response
\* included, without a further attempt; it makes a further attempt only
\* after the fetch threw; and it throws only when all 3 attempts threw.
C30_FetchWithRetryEndsWithinThreeAttempts ==
    /\ [](\A c \in Calls :
            /\ calls[c].attempt <= retryAttempts
            /\ Len(calls[c].fetched) <= retryAttempts
            /\ EarlierThrew(c)
            /\ calls[c].phase = "returned" =>
                   calls[c].fetched[Len(calls[c].fetched)] \in Responses
            /\ calls[c].phase = "thrown" =>
                   calls[c].fetched = [i \in 1..retryAttempts |-> "threw"]
            /\ calls[c].phase \in {"fetching", "waiting"} =>
                   /\ Len(calls[c].fetched) < retryAttempts
                   /\ \A i \in DOMAIN calls[c].fetched :
                          calls[c].fetched[i] = "threw")
    /\ \A c \in Calls : (calls[c].phase = "fetching") ~> Ended(c)

\* one call threw after three failed attempts, the other returned the HTTP
\* error response of its second attempt
C30_Witness ==
    /\ calls[1].phase = "thrown"
    /\ calls[1].attempt = retryAttempts
    /\ calls[2].phase = "returned"
    /\ calls[2].fetched = <<"threw", "httpError">>

====
